---- MODULE Spec2Model ----
(***************************************************************************)
(* Model of the PII detection and risk-scoring service of Raven_Backend    *)
(* (internal/services/pii_service.go).                                     *)
(*                                                                         *)
(* Strings are sequences of one-character strings.  A regular expression   *)
(* is taken from the subset "optional ^, a sequence of character classes,  *)
(* optional $"; a pattern text that does not compile is marked bad.        *)
(* Go map iteration order is unspecified: every loop over a map is         *)
(* modelled by a nondeterministic choice of the order of its keys.         *)
(***************************************************************************)
EXTENDS Integers, Sequences, FiniteSets, TLC

\* config, compiledRegex, keywordRegex: the fields of the PIIService;
\* op: the method being called ("idle" between calls), args: its arguments,
\* ret: what it returns (a string under masked, a finding list under findings,
\* the two risk metrics or the PIIAnalysisResult as records of their fields);
\* userAPIData, piiReports: the documents of the MongoDB collections
\* "user_api_data" and "pii_analysis_reports", in insertion order
VARIABLES config, compiledRegex, keywordRegex, op, args, ret, userAPIData, piiReports,
          kafka

svcVars == <<config, compiledRegex, keywordRegex>>
dbVars == <<userAPIData, piiReports>>
vars == <<config, compiledRegex, keywordRegex, op, args, ret, userAPIData, piiReports,
          kafka>>

----------------------------------------------------------------------------
(* Bounds of the model *)

\* longest input string of the maskSensitiveValue calls
MaxLen == 6
\* longest finding list of the calculateRiskMetrics calls
MaxFindings == 3

----------------------------------------------------------------------------
(* Strings *)

\* character classes: of the configured patterns, of %XX escapes, of URL
\* schemes, and the characters of the values that are masked
Chars ==
    [Digit |-> {"0", "1", "2", "3", "4", "5", "6", "7", "8", "9"},
     LowerAlpha |-> {"a", "b", "c", "d", "e", "f", "g", "h", "i", "j", "k", "l", "m",
                   "n", "o", "p", "q", "r", "s", "t", "u", "v", "w", "x", "y", "z"},
     UpperAlpha |-> {"A", "C", "E", "I", "K", "N", "T", "U"},
     Hex |-> {"0", "1", "2", "3", "4", "5", "6", "7", "8", "9",
              "a", "b", "c", "d", "e", "f", "A", "B", "C", "D", "E", "F"},
     Mask |-> {"a", "b", "*"}]

\* strings.ToLower on one character (the upper-case letters the inputs use)
LowerChar(c) ==
    CASE c = "A" -> "a" [] c = "C" -> "c" [] c = "E" -> "e" [] c = "I" -> "i"
      [] c = "K" -> "k" [] c = "N" -> "n" [] c = "T" -> "t" [] c = "U" -> "u"
      [] OTHER -> c

ToLower(s) == [i \in 1..Len(s) |-> LowerChar(s[i])]

\* strings.Contains
Contains(s, sub) ==
    \E i \in 0..(Len(s) - Len(sub)) : SubSeq(s, i + 1, i + Len(sub)) = sub

\* strings.Repeat
Repeat(c, n) == [i \in 1..n |-> c]

\* all strings over alphabet A of length at most n
StringsUpTo(A, n) == UNION {[1..k -> A] : k \in 0..n}

\* the orders in which a range loop may visit the keys S of a map
Perms(S) ==
    {p \in [1..Cardinality(S) -> S] :
        \A i, j \in 1..Cardinality(S) : i # j => p[i] # p[j]}

----------------------------------------------------------------------------
(* Regular expressions: regexp.Compile, MatchString, FindAllString *)

Regex(bol, cls, eol) == [bad |-> FALSE, bol |-> bol, cls |-> cls, eol |-> eol]
BadRegex == [bad |-> TRUE, bol |-> FALSE, cls |-> <<>>, eol |-> FALSE]
\* the empty pattern text ""
EmptyRegex == Regex(FALSE, <<>>, FALSE)

\* does the compiled regex match text exactly at positions i .. i+Len(cls)-1
MatchAt(re, text, i) ==
    /\ i >= 1
    /\ i + Len(re.cls) - 1 <= Len(text)
    /\ \A k \in 1..Len(re.cls) : text[i + k - 1] \in re.cls[k]
    /\ re.bol => i = 1
    /\ re.eol => i + Len(re.cls) - 1 = Len(text)

MatchString(re, text) == \E i \in 1..(Len(text) + 1) : MatchAt(re, text, i)

\* leftmost non-overlapping matches from position i on, as start positions
RECURSIVE FindAllFrom(_, _, _)
FindAllFrom(re, text, i) ==
    IF i > Len(text) - Len(re.cls) + 1 THEN <<>>
    ELSE IF MatchAt(re, text, i)
         THEN <<i>> \o FindAllFrom(re, text, i + Len(re.cls))
         ELSE FindAllFrom(re, text, i + 1)

FindAllIndex(re, text) == FindAllFrom(re, text, 1)

\* the leftmost match, "" when there is none
FindString(re, text) ==
    LET starts == FindAllIndex(re, text)
    IN  IF Len(starts) = 0 THEN <<>>
        ELSE SubSeq(text, starts[1], starts[1] + Len(re.cls) - 1)

FindAllString(re, text) ==
    LET starts == FindAllIndex(re, text)
    IN  [n \in 1..Len(starts) |->
            SubSeq(text, starts[n], starts[n] + Len(re.cls) - 1)]

----------------------------------------------------------------------------
(* String literals of the program and of the inputs *)

\* Str.x is the Go string x as the sequence of its characters
Str ==
    [email |-> <<"e", "m", "a", "i", "l">>,
     Email |-> <<"E", "m", "a", "i", "l">>,
     cc |-> <<"c", "c">>,
     CC |-> <<"C", "C">>,
     card |-> <<"c", "a", "r", "d">>,
     id |-> <<"i", "d">>,
     ccid |-> <<"c", "c", "i", "d">>,
     Ccid |-> <<"C", "c", "i", "d">>,
     x |-> <<"x">>,
     visa |-> <<"v", "i", "s", "a">>,
     maestro |-> <<"m", "a", "e", "s", "t", "r", "o">>,
     creditCardNumber |-> <<"c", "r", "e", "d", "i", "t", "C", "a", "r", "d", "N", "u", "m", "b", "e", "r">>,
     a_at_b |-> <<"a", "@", "b">>,
     two_emails |-> <<"a", "@", "b", ",", "c", "@", "d">>,
     card_number |-> <<"4", "1", "1", "1", "1", "1", "1", "1", "1", "1", "1", "1", "1", "1", "1", "1">>,
     d1234 |-> <<"1", "2", "3", "4">>,
     d123 |-> <<"1", "2", "3">>,
     d12abcd |-> <<"1", "2", "a", "b", "c", "d">>,
     apikey |-> <<"a", "p", "i", "k", "e", "y">>,
     api_dash_key |-> <<"a", "p", "i", "-", "k", "e", "y">>,
     api_key |-> <<"a", "p", "i", "_", "k", "e", "y">>,
     token |-> <<"t", "o", "k", "e", "n">>,
     access_dash_token |-> <<"a", "c", "c", "e", "s", "s", "-", "t", "o", "k", "e", "n">>,
     access_token |-> <<"a", "c", "c", "e", "s", "s", "_", "t", "o", "k", "e", "n">>,
     key |-> <<"k", "e", "y">>,
     userid |-> <<"u", "s", "e", "r", "i", "d">>,
     user_dash_id |-> <<"u", "s", "e", "r", "-", "i", "d">>,
     user_id |-> <<"u", "s", "e", "r", "_", "i", "d">>,
     phone |-> <<"p", "h", "o", "n", "e">>,
     ssn |-> <<"s", "s", "n">>,
     sin |-> <<"s", "i", "n">>,
     auth |-> <<"a", "u", "t", "h">>,
     authorization |-> <<"a", "u", "t", "h", "o", "r", "i", "z", "a", "t", "i", "o", "n">>,
     auth_token |-> <<"a", "u", "t", "h", "_", "t", "o", "k", "e", "n">>,
     url_path_segment |-> <<"u", "r", "l", "_", "p", "a", "t", "h", "_", "s", "e", "g", "m", "e", "n", "t">>,
     url_segment_ |-> <<"u", "r", "l", "_", "s", "e", "g", "m", "e", "n", "t", "_">>,
     sentinel |-> <<"[", "I", "n", "v", "a", "l", "i", "d", " ", "U", "T", "F", "-", "8", " ", "o", "r", " ", "B", "i", "n", "a", "r", "y", " ", "D", "a", "t", "a", "]">>,
     api |-> <<"/", "a", "p", "i">>,
     api_word |-> <<"a", "p", "i">>,
     users |-> <<"u", "s", "e", "r", "s">>,
     d42 |-> <<"4", "2">>,
     sk_live |-> <<"s", "k", "_", "l", "i", "v", "e", "_", "a", "b", "c", "1", "2", "3">>,
     Key |-> <<"K", "e", "y">>,
     Token |-> <<"T", "o", "k", "e", "n">>,
     Id |-> <<"I", "d">>,
     Auth |-> <<"A", "u", "t", "h">>,
     monkey |-> <<"m", "o", "n", "k", "e", "y">>,
     tokens |-> <<"t", "o", "k", "e", "n", "s">>,
     uid |-> <<"u", "i", "d">>,
     keytoken |-> <<"k", "e", "y", "t", "o", "k", "e", "n">>,
     tokenid |-> <<"t", "o", "k", "e", "n", "i", "d">>,
     Body_email |-> <<"{", "\"", "e", "m", "a", "i", "l", "\"", ":", "\"", "a", "@", "b", "\"", "}">>,
     Body_id |-> <<"{", "\"", "i", "d", "\"", ":", "\"", "1", "2", "a", "b", "c", "d", "\"", "}">>,
     Body_nested |-> <<"{", "\"", "u", "\"", ":", "[", "{", "\"", "i", "d", "\"", ":", "\"", "1", "2", "3", "4", "\"", "}", ",", "\"", "a", "@", "b", "\"", "]", "}">>,
     Body_number |-> <<"{", "\"", "i", "d", "\"", ":", "1", "2", ",", "\"", "x", "\"", ":", "[", "t", "r", "u", "e", ",", "n", "u", "l", "l", "]", "}">>,
     Url_id |-> <<"/", "i", "d", "/", "1", "2", "a", "b", "c", "d">>,
     Url_query |-> <<"/", "u", "/", "1", "2", "3", "4", "?", "e", "m", "a", "i", "l", "=", "a", "%", "4", "0", "b">>,
     Url_host |-> <<"h", "t", "t", "p", ":", "/", "/", "h", "/", "e", "m", "a", "i", "l", "/", "a", "@", "b">>,
     Url_bad_escape |-> <<"/", "a", "%", "z", "z">>,
     Url_two |-> <<"/", "1", "2", "/", "i", "d", "/", "3", "4">>,
     Url_bad_path |-> <<"/", "1", "2", "%", "z", "z">>,
     Url_bad_query |-> <<"/", "1", "2", "?", "x", "=", "%", "z", "z">>,
     Url_twice |-> <<"/", "1", "2", "%", "2", "5", "z", "z">>,
     Body_string |-> <<"\"", "a", "@", "b", "\"">>,
     Body_true |-> <<"t", "r", "u", "e">>,
     http |-> <<"h", "t", "t", "p", ":", "/", "/">>,
     host |-> <<"h">>,
     User_Agent |-> <<"U", "s", "e", "r", "-", "A", "g", "e", "n", "t">>,
     Content_Type |-> <<"C", "o", "n", "t", "e", "n", "t", "-", "T", "y", "p", "e">>]

\* cardFields of detectPIIInText
cardFields ==
    << <<"c", "a", "r", "d", "n", "u", "m", "b", "e", "r">>,
       <<"c", "c", "n", "u", "m", "b", "e", "r">>,
       <<"c", "r", "e", "d", "i", "t", "c", "a", "r", "d">>,
       <<"c", "a", "r", "d">>,
       <<"c", "c">>,
       <<"v", "i", "s", "a">>,
       <<"v", "i", "s", "a", "c", "a", "r", "d">>,
       <<"m", "a", "s", "t", "e", "r", "c", "a", "r", "d">>,
       <<"m", "a", "e", "s", "t", "r", "o">> >>

Locations ==
    {"request_headers", "request_body", "response_body", "url_path", "query_params"}

----------------------------------------------------------------------------
(* Configurations (config/regexpii.json as loaded by loadPIIConfig) *)


\* the patterns of the configurations: Email is [a-z]@[a-z]; Card is
\* 4[0-9]{15}; CardAnchored is ^4[0-9]{15}$; TwoDigits is [0-9][0-9]; KwCc is
\* cc; KwId is id
Re ==
    [Email |-> Regex(FALSE, <<Chars.LowerAlpha, {"@"}, Chars.LowerAlpha>>, FALSE),
     Card |-> Regex(FALSE, <<{"4"}>> \o [i \in 1..15 |-> Chars.Digit], FALSE),
     CardAnchored |-> Regex(TRUE, <<{"4"}>> \o [i \in 1..15 |-> Chars.Digit], TRUE),
     TwoDigits |-> Regex(FALSE, <<Chars.Digit, Chars.Digit>>, FALSE),
     KwCc |-> Regex(FALSE, <<{"c"}, {"c"}>>, FALSE),
     KwId |-> Regex(FALSE, <<{"i"}, {"d"}>>, FALSE)]

FieldPattern(fieldNames, valuePattern, riskLevel, category) ==
    [FieldNames |-> fieldNames, ValuePattern |-> valuePattern,
     RegexPattern |-> EmptyRegex, RiskLevel |-> riskLevel, Category |-> category]

RegexOnlyPattern(regexPattern, riskLevel, category) ==
    [FieldNames |-> <<>>, ValuePattern |-> EmptyRegex,
     RegexPattern |-> regexPattern, RiskLevel |-> riskLevel, Category |-> category]

\* a well-formed configuration
ConfigA ==
    [FieldBased |->
        [email |-> FieldPattern(<<Str.email>>, Re.Email, "MEDIUM", "contact"),
         credit_card |-> FieldPattern(<<Str.CC, Str.card>>, Re.CardAnchored, "CRITICAL", "financial"),
         id_number |-> FieldPattern(<<Str.id>>, Re.TwoDigits, "HIGH", "identity")],
     ValueOnly |->
        [card |-> RegexOnlyPattern(Re.Card, "CRITICAL", "financial"),
         email |-> RegexOnlyPattern(Re.Email, "MEDIUM", "contact")],
     KeywordBased |->
        [card_kw |-> RegexOnlyPattern(Re.KwCc, "HIGH", "financial"),
         id_kw |-> RegexOnlyPattern(Re.KwId, "LOW", "identity")],
     RiskLevels |-> [LOW |-> 1, MEDIUM |-> 2, HIGH |-> 3, CRITICAL |-> 5]]

\* a configuration with patterns that do not compile, an empty pattern text,
\* a risk level of weight 0 and a risk level missing from risk_levels
ConfigB ==
    [FieldBased |->
        [email |-> FieldPattern(<<Str.email>>, BadRegex, "MEDIUM", "contact"),
         id_number |-> FieldPattern(<<Str.id>>, Re.TwoDigits, "SEVERE", "identity"),
         anything |-> FieldPattern(<<Str.x>>, EmptyRegex, "LOW", "other")],
     ValueOnly |->
        [card |-> RegexOnlyPattern(BadRegex, "HIGH", "financial"),
         email |-> RegexOnlyPattern(Re.Email, "MEDIUM", "contact"),
         digits |-> RegexOnlyPattern(Re.TwoDigits, "INFO", "other")],
     KeywordBased |->
        [id_kw |-> RegexOnlyPattern(Re.KwId, "LOW", "identity"),
         broken_kw |-> RegexOnlyPattern(BadRegex, "HIGH", "other")],
     RiskLevels |-> [INFO |-> 0, LOW |-> 1, MEDIUM |-> 2, HIGH |-> 3]]

\* a configuration without field-based patterns, with two risk levels of
\* equal weight
ConfigC ==
    [FieldBased |-> <<>>,
     ValueOnly |->
        [digits |-> RegexOnlyPattern(Re.TwoDigits, "NONE", "other"),
         email |-> RegexOnlyPattern(Re.Email, "LOW", "contact")],
     KeywordBased |->
        [card_kw |-> RegexOnlyPattern(Re.KwCc, "HIGH", "financial"),
         id_kw |-> RegexOnlyPattern(Re.KwId, "LOW", "identity")],
     RiskLevels |-> [NONE |-> 1, LOW |-> 1, HIGH |-> 3]]

Configs == {ConfigA, ConfigB, ConfigC}

\* regexp.Compile succeeds
Compiles(re) == ~re.bad

\* variant: the compiled patterns are keyed by name alone, so that a name
\* whose pattern fails to compile in one mode is left out in the other
CompiledRegexOf_SharedNames(cfg) ==
    LET badNames == {m \in DOMAIN cfg.FieldBased : ~Compiles(cfg.FieldBased[m].ValuePattern)}
                        \cup {m \in DOMAIN cfg.ValueOnly : ~Compiles(cfg.ValueOnly[m].RegexPattern)}
        fkeys == {<<"field", n>> : n \in
                    {m \in DOMAIN cfg.FieldBased \ badNames :
                        cfg.FieldBased[m].ValuePattern # EmptyRegex}}
        vkeys == {<<"value", n>> : n \in
                    {m \in DOMAIN cfg.ValueOnly \ badNames :
                        cfg.ValueOnly[m].RegexPattern # EmptyRegex}}
    IN  [k \in fkeys \cup vkeys |->
            IF k[1] = "field" THEN cfg.FieldBased[k[2]].ValuePattern
                              ELSE cfg.ValueOnly[k[2]].RegexPattern]

\* compileRegexPatterns: the compiledRegex map, keyed "field_<name>" and
\* "value_<name>", here <<"field", name>> and <<"value", name>>
CompiledRegexOf(cfg) ==
    LET fkeys == {<<"field", n>> : n \in
                    {m \in DOMAIN cfg.FieldBased :
                        /\ cfg.FieldBased[m].ValuePattern # EmptyRegex
                        /\ Compiles(cfg.FieldBased[m].ValuePattern)}}
        vkeys == {<<"value", n>> : n \in
                    {m \in DOMAIN cfg.ValueOnly :
                        /\ cfg.ValueOnly[m].RegexPattern # EmptyRegex
                        /\ Compiles(cfg.ValueOnly[m].RegexPattern)}}
    IN  [k \in fkeys \cup vkeys |->
            IF k[1] = "field" THEN cfg.FieldBased[k[2]].ValuePattern
                              ELSE cfg.ValueOnly[k[2]].RegexPattern]

\* compileRegexPatterns: the keywordRegex map
KeywordRegexOf(cfg) ==
    [n \in {m \in DOMAIN cfg.KeywordBased :
                /\ cfg.KeywordBased[m].RegexPattern # EmptyRegex
                /\ Compiles(cfg.KeywordBased[m].RegexPattern)}
        |-> cfg.KeywordBased[n].RegexPattern]

----------------------------------------------------------------------------
(* maskSensitiveValue *)

\* variant: the short-value test reads len(value) < 4
maskSensitiveValue_ShortBelow4(value) ==
    IF Len(value) < 4
    THEN Repeat("*", Len(value))
    ELSE SubSeq(value, 1, 2) \o Repeat("*", Len(value) - 4)
            \o SubSeq(value, Len(value) - 1, Len(value))

maskSensitiveValue(value) ==
    IF Len(value) <= 4
    THEN Repeat("*", Len(value))
    ELSE SubSeq(value, 1, 2) \o Repeat("*", Len(value) - 4)
            \o SubSeq(value, Len(value) - 1, Len(value))

----------------------------------------------------------------------------
(* calculateRiskMetrics *)

\* variant: the weight is added only when it is a new maximum
RECURSIVE RiskLoop_SumOnlyNewMax(_, _, _, _, _)
RiskLoop_SumOnlyNewMax(findings, i, totalScore, highestRisk, maxRiskValue) ==
    IF i > Len(findings)
    THEN [RiskScore |-> totalScore, HighestRisk |-> highestRisk]
    ELSE IF findings[i].RiskLevel \in DOMAIN config.RiskLevels
         THEN LET riskValue == config.RiskLevels[findings[i].RiskLevel]
              IN  IF riskValue > maxRiskValue
                  THEN RiskLoop_SumOnlyNewMax(findings, i + 1, totalScore + riskValue,
                                              findings[i].RiskLevel, riskValue)
                  ELSE RiskLoop_SumOnlyNewMax(findings, i + 1, totalScore,
                                              highestRisk, maxRiskValue)
         ELSE RiskLoop_SumOnlyNewMax(findings, i + 1, totalScore, highestRisk,
                                     maxRiskValue)

\* variant: the comparison reads riskValue >= maxRiskValue
RECURSIVE RiskLoop_LastOnTies(_, _, _, _, _)
RiskLoop_LastOnTies(findings, i, totalScore, highestRisk, maxRiskValue) ==
    IF i > Len(findings)
    THEN [RiskScore |-> totalScore, HighestRisk |-> highestRisk]
    ELSE IF findings[i].RiskLevel \in DOMAIN config.RiskLevels
         THEN LET riskValue == config.RiskLevels[findings[i].RiskLevel]
              IN  IF riskValue >= maxRiskValue
                  THEN RiskLoop_LastOnTies(findings, i + 1, totalScore + riskValue,
                                           findings[i].RiskLevel, riskValue)
                  ELSE RiskLoop_LastOnTies(findings, i + 1, totalScore + riskValue,
                                           highestRisk, maxRiskValue)
         ELSE RiskLoop_LastOnTies(findings, i + 1, totalScore, highestRisk,
                                  maxRiskValue)

\* the loop over the findings, from finding i on
RECURSIVE RiskLoop(_, _, _, _, _)
RiskLoop(findings, i, totalScore, highestRisk, maxRiskValue) ==
    IF i > Len(findings)
    THEN [RiskScore |-> totalScore, HighestRisk |-> highestRisk]
    ELSE IF findings[i].RiskLevel \in DOMAIN config.RiskLevels
         THEN LET riskValue == config.RiskLevels[findings[i].RiskLevel]
              IN  IF riskValue > maxRiskValue
                  THEN RiskLoop(findings, i + 1, totalScore + riskValue,
                                findings[i].RiskLevel, riskValue)
                  ELSE RiskLoop(findings, i + 1, totalScore + riskValue,
                                highestRisk, maxRiskValue)
         ELSE RiskLoop(findings, i + 1, totalScore, highestRisk, maxRiskValue)

\* variant: without the early return for an empty list
calculateRiskMetrics_NoEmptyCase(findings) == RiskLoop(findings, 1, 0, "LOW", 0)

calculateRiskMetrics(findings) ==
    IF Len(findings) = 0
    THEN [RiskScore |-> 0, HighestRisk |-> "NONE"]
    ELSE RiskLoop(findings, 1, 0, "LOW", 0)

----------------------------------------------------------------------------
(* detectPIIInText *)

\* PIIDetectionResult.  Tags is copied from the pattern like Category, and
\* Timestamp is the time of the call; both are left out.  Matched is an
\* auxiliary field, not a field of the struct: the text the pattern's regex
\* matched when the finding was made.
Finding(piiType, detectedValue, fieldName, location, mode, pattern, matched) ==
    [PIIType |-> piiType, DetectedValue |-> detectedValue, FieldName |-> fieldName,
     Location |-> location, DetectionMode |-> mode,
     RiskLevel |-> pattern.RiskLevel, Category |-> pattern.Category,
     Matched |-> matched]

\* variant: the location is not consulted
SkipValueOnly_AnyLocation(fieldNameLower, location) ==
    \E c \in 1..Len(cardFields) : Contains(fieldNameLower, cardFields[c])

\* the skip flag computed for each value-only pattern
SkipValueOnly(fieldNameLower, location) ==
    /\ location # "url_path"
    /\ \E c \in 1..Len(cardFields) : Contains(fieldNameLower, cardFields[c])

\* variant: FindString in place of FindAllString, one finding per pattern
ValuePatternFindings_FirstMatchOnly(patternName, fieldNameLower, text, location) ==
    IF SkipValueOnly(fieldNameLower, location) THEN <<>>
    ELSE IF /\ <<"value", patternName>> \in DOMAIN compiledRegex
            /\ MatchString(compiledRegex[<<"value", patternName>>], text)
         THEN LET match == FindString(compiledRegex[<<"value", patternName>>], text)
              IN  <<Finding(patternName, maskSensitiveValue(match), <<>>,
                            location, "value_only", config.ValueOnly[patternName],
                            match)>>
         ELSE <<>>

\* the body of the loop for one value-only pattern
ValuePatternFindings(patternName, fieldNameLower, text, location) ==
    IF SkipValueOnly(fieldNameLower, location) THEN <<>>
    ELSE IF <<"value", patternName>> \in DOMAIN compiledRegex
         THEN LET matches == FindAllString(compiledRegex[<<"value", patternName>>], text)
              IN  [m \in 1..Len(matches) |->
                      Finding(patternName, maskSensitiveValue(matches[m]), <<>>,
                              location, "value_only", config.ValueOnly[patternName],
                              matches[m])]
         ELSE <<>>

\* detectPIIInText when the range loop visits the value-only patterns in
\* the order vo
RECURSIVE TextLoop(_, _, _, _, _)
TextLoop(vo, i, fieldNameLower, text, location) ==
    IF i > Len(vo) THEN <<>>
    ELSE ValuePatternFindings(vo[i], fieldNameLower, text, location)
            \o TextLoop(vo, i + 1, fieldNameLower, text, location)

\* the lists detectPIIInText may return
detectPIIInText(fieldNameLower, text, location) ==
    {TextLoop(vo, 1, fieldNameLower, text, location) :
        vo \in Perms(DOMAIN config.ValueOnly)}

----------------------------------------------------------------------------
(* detectPIIInField *)

\* the condition of the field-based loop for one pattern: some target field
\* is contained in the field name and the compiled regex matches the value
FieldPatternHits(patternName, fieldNameLower, fieldValue) ==
    \E t \in 1..Len(config.FieldBased[patternName].FieldNames) :
        /\ Contains(fieldNameLower, ToLower(config.FieldBased[patternName].FieldNames[t]))
        /\ <<"field", patternName>> \in DOMAIN compiledRegex
        /\ MatchString(compiledRegex[<<"field", patternName>>], fieldValue)

\* variant: the loop does not return at the first hit
RECURSIVE FieldLoop_AllHits(_, _, _, _, _)
FieldLoop_AllHits(fo, i, fieldName, fieldValue, location) ==
    IF i > Len(fo) THEN <<>>
    ELSE (IF FieldPatternHits(fo[i], ToLower(fieldName), fieldValue)
          THEN <<Finding(fo[i], maskSensitiveValue(fieldValue), fieldName, location,
                         "field_based", config.FieldBased[fo[i]],
                         FindString(compiledRegex[<<"field", fo[i]>>], fieldValue))>>
          ELSE <<>>)
            \o FieldLoop_AllHits(fo, i + 1, fieldName, fieldValue, location)

\* the field-based loop in the order fo: the finding of the first pattern
\* that hits, or no finding
RECURSIVE FieldLoop(_, _, _, _, _)
FieldLoop(fo, i, fieldName, fieldValue, location) ==
    IF i > Len(fo) THEN <<>>
    ELSE IF FieldPatternHits(fo[i], ToLower(fieldName), fieldValue)
         THEN <<Finding(fo[i], maskSensitiveValue(fieldValue), fieldName, location,
                        "field_based", config.FieldBased[fo[i]],
                        FindString(compiledRegex[<<"field", fo[i]>>], fieldValue))>>
         ELSE FieldLoop(fo, i + 1, fieldName, fieldValue, location)

\* variant: the loop stops at the first keyword pattern that matches
RECURSIVE KeywordLoop_FirstOnly(_, _, _, _, _)
KeywordLoop_FirstOnly(ko, i, fieldName, fieldValue, location) ==
    IF i > Len(ko) THEN <<>>
    ELSE IF ko[i] \in DOMAIN keywordRegex /\ MatchString(keywordRegex[ko[i]], fieldName)
         THEN <<Finding(ko[i], maskSensitiveValue(fieldValue), fieldName, location,
                        "keyword_based", config.KeywordBased[ko[i]],
                        FindString(keywordRegex[ko[i]], fieldName))>>
         ELSE KeywordLoop_FirstOnly(ko, i + 1, fieldName, fieldValue, location)

\* the keyword-based loop in the order ko
RECURSIVE KeywordLoop(_, _, _, _, _)
KeywordLoop(ko, i, fieldName, fieldValue, location) ==
    IF i > Len(ko) THEN <<>>
    ELSE (IF ko[i] \in DOMAIN keywordRegex /\ MatchString(keywordRegex[ko[i]], fieldName)
          THEN <<Finding(ko[i], maskSensitiveValue(fieldValue), fieldName, location,
                         "keyword_based", config.KeywordBased[ko[i]],
                         FindString(keywordRegex[ko[i]], fieldName))>>
          ELSE <<>>)
            \o KeywordLoop(ko, i + 1, fieldName, fieldValue, location)

\* the value-only findings re-tagged with the field name
TagFieldName(findings, fieldName) ==
    [i \in 1..Len(findings) |-> [findings[i] EXCEPT !.FieldName = fieldName]]

\* variant: the value-only findings are appended only when no keyword
\* pattern matched
DetectPIIInFieldOrdered_NoScanAfterKeyword(fo, ko, vf, name, value, location) ==
    LET hit == FieldLoop(fo, 1, name, value, location)
        kw == KeywordLoop(ko, 1, name, value, location)
    IN  IF hit # <<>> THEN hit
        ELSE IF kw # <<>> THEN kw
        ELSE TagFieldName(vf, name)

\* detectPIIInField for one choice of the loop orders and of the list
\* detectPIIInText returns
DetectPIIInFieldOrdered(fo, ko, valueFindings, fieldName, fieldValue, location) ==
    LET hit == FieldLoop(fo, 1, fieldName, fieldValue, location)
    IN  IF hit # <<>> THEN hit
        ELSE KeywordLoop(ko, 1, fieldName, fieldValue, location)
                \o TagFieldName(valueFindings, fieldName)

\* the lists detectPIIInField may return
detectPIIInField(fieldName, fieldValue, location) ==
    {DetectPIIInFieldOrdered(fo, ko, vf, fieldName, fieldValue, location) :
        fo \in Perms(DOMAIN config.FieldBased),
        ko \in Perms(DOMAIN config.KeywordBased),
        vf \in detectPIIInText(ToLower(fieldName), fieldValue, location)}

----------------------------------------------------------------------------
(* String helpers of the URL and JSON code *)


\* strings.Index for a one-character separator: the first position, or 0
RECURSIVE IndexFrom(_, _, _)
IndexFrom(s, c, i) ==
    IF i > Len(s) THEN 0 ELSE IF s[i] = c THEN i ELSE IndexFrom(s, c, i + 1)

Index(s, c) == IndexFrom(s, c, 1)

HasPrefix(s, prefix) ==
    Len(s) >= Len(prefix) /\ SubSeq(s, 1, Len(prefix)) = prefix

\* strings.Cut for a one-character separator
Cut(s, c) ==
    LET i == Index(s, c)
    IN  IF i = 0 THEN [before |-> s, after |-> <<>>, found |-> FALSE]
        ELSE [before |-> SubSeq(s, 1, i - 1), after |-> SubSeq(s, i + 1, Len(s)),
              found |-> TRUE]

\* strings.Split for a one-character separator
RECURSIVE Split(_, _)
Split(s, c) ==
    LET i == Index(s, c)
    IN  IF i = 0 THEN <<s>>
        ELSE <<SubSeq(s, 1, i - 1)>> \o Split(SubSeq(s, i + 1, Len(s)), c)

\* the decimal digits of fmt.Sprintf("%d", n), n >= 0
DigitChar(d) ==
    CASE d = 0 -> "0" [] d = 1 -> "1" [] d = 2 -> "2" [] d = 3 -> "3" [] d = 4 -> "4"
      [] d = 5 -> "5" [] d = 6 -> "6" [] d = 7 -> "7" [] d = 8 -> "8" [] d = 9 -> "9"

RECURSIVE Itoa(_)
Itoa(n) == IF n < 10 THEN <<DigitChar(n)>> ELSE Itoa(n \div 10) \o <<DigitChar(n % 10)>>

----------------------------------------------------------------------------
(* net/url: QueryUnescape, Parse, Query *)

\* the character a %XX escape stands for (the escapes the inputs use; any
\* other byte is shown as "~")
Unhex(h1, h2) ==
    CASE h1 = "2" /\ h2 = "0" -> " "
      [] h1 = "2" /\ h2 = "3" -> "#"
      [] h1 = "2" /\ h2 = "5" -> "%"
      [] h1 = "2" /\ h2 \in {"F", "f"} -> "/"
      [] h1 = "3" /\ h2 \in {"A", "a"} -> ":"
      [] h1 = "3" /\ h2 \in {"F", "f"} -> "?"
      [] h1 = "4" /\ h2 = "0" -> "@"
      [] OTHER -> "~"

\* every % is followed by two hex digits
EscapesValid(s) ==
    \A i \in 1..Len(s) :
        s[i] = "%" => /\ i + 2 <= Len(s)
                      /\ s[i + 1] \in Chars.Hex
                      /\ s[i + 2] \in Chars.Hex

\* the decoding pass of unescape; plus says whether "+" becomes a space
RECURSIVE UnescapeFrom(_, _, _)
UnescapeFrom(s, i, plus) ==
    IF i > Len(s) THEN <<>>
    ELSE IF s[i] = "%"
         THEN <<Unhex(s[i + 1], s[i + 2])>> \o UnescapeFrom(s, i + 3, plus)
         ELSE IF s[i] = "+" /\ plus
              THEN <<" ">> \o UnescapeFrom(s, i + 1, plus)
              ELSE <<s[i]>> \o UnescapeFrom(s, i + 1, plus)

\* url.QueryUnescape
QueryUnescape(s) ==
    IF EscapesValid(s) THEN [err |-> FALSE, val |-> UnescapeFrom(s, 1, TRUE)]
    ELSE [err |-> TRUE, val |-> <<>>]

\* unescape in path mode (setPath)
PathUnescape(s) ==
    IF EscapesValid(s) THEN [err |-> FALSE, val |-> UnescapeFrom(s, 1, FALSE)]
    ELSE [err |-> TRUE, val |-> <<>>]

\* getScheme: the position of the colon that ends a scheme, 0 when the URL
\* has no scheme, -1 for the error "missing protocol scheme"
RECURSIVE SchemeEnd(_, _)
SchemeEnd(s, i) ==
    IF i > Len(s) THEN 0
    ELSE IF s[i] \in Chars.LowerAlpha \cup Chars.UpperAlpha THEN SchemeEnd(s, i + 1)
    ELSE IF s[i] \in Chars.Digit \cup {"+", "-", "."}
         THEN (IF i = 1 THEN 0 ELSE SchemeEnd(s, i + 1))
    ELSE IF s[i] = ":" THEN (IF i = 1 THEN -1 ELSE i)
    ELSE 0

UrlError == [err |-> TRUE, Path |-> <<>>, RawQuery |-> <<>>]

\* the host of an authority is rejected when it holds a character that
\* must be escaped in a host (of those the inputs use: space, %, ?)
ValidAuthority(authority) ==
    \A i \in 1..Len(authority) : authority[i] \notin {" ", "%", "~"}

\* url.Parse: the fragment is cut off, then the scheme, the query, the
\* authority and the path are taken in turn; Path is unescaped once more
ParseURL(rawURL) ==
    LET u == Cut(rawURL, "#").before
        frag == Cut(rawURL, "#").after
        se == SchemeEnd(u, 1)
        scheme == IF se > 0 THEN SubSeq(u, 1, se - 1) ELSE <<>>
        afterScheme == IF se > 0 THEN SubSeq(u, se + 1, Len(u)) ELSE u
        q == Cut(afterScheme, "?")
        rest == q.before
        rawQuery == q.after
        hasAuthority == HasPrefix(rest, <<"/", "/">>)
        afterSlashes == SubSeq(rest, 3, Len(rest))
        slash == Index(afterSlashes, "/")
        authority == IF slash = 0 THEN afterSlashes
                     ELSE SubSeq(afterSlashes, 1, slash - 1)
        pathText == IF ~hasAuthority THEN rest
                    ELSE IF slash = 0 THEN <<>>
                    ELSE SubSeq(afterSlashes, slash, Len(afterSlashes))
        path == PathUnescape(pathText)
    IN  IF se = -1 THEN UrlError
        ELSE IF u = <<"*">> THEN [err |-> FALSE, Path |-> u, RawQuery |-> <<>>]
        ELSE IF ~HasPrefix(rest, <<"/">>) /\ scheme # <<>>
             THEN [err |-> ~EscapesValid(frag), Path |-> <<>>, RawQuery |-> rawQuery]
        ELSE IF ~HasPrefix(rest, <<"/">>) /\ Index(Cut(rest, "/").before, ":") # 0
             THEN UrlError
        ELSE IF hasAuthority /\ ~ValidAuthority(authority) THEN UrlError
        ELSE IF path.err \/ ~EscapesValid(frag) THEN UrlError
        ELSE [err |-> FALSE, Path |-> path.val, RawQuery |-> rawQuery]

\* ParseQuery for one "key=value" piece: the decoded pair, or no pair when
\* the piece is empty, holds a semicolon or does not decode
QueryPair(piece) ==
    LET kv == Cut(piece, "=")
        k == QueryUnescape(kv.before)
        v == QueryUnescape(kv.after)
    IN  IF piece = <<>> \/ Index(piece, ";") # 0 \/ k.err \/ v.err THEN <<>>
        ELSE << <<k.val, v.val>> >>

RECURSIVE QueryPairs(_, _)
QueryPairs(pieces, i) ==
    IF i > Len(pieces) THEN <<>>
    ELSE QueryPair(pieces[i]) \o QueryPairs(pieces, i + 1)

\* the values of one key, in the order of the query text
RECURSIVE ValuesOf(_, _, _)
ValuesOf(pairs, key, i) ==
    IF i > Len(pairs) THEN <<>>
    ELSE (IF pairs[i][1] = key THEN <<pairs[i][2]>> ELSE <<>>)
            \o ValuesOf(pairs, key, i + 1)

\* URL.Query(): the map from each key to its values
Query(rawQuery) ==
    LET pairs == QueryPairs(Split(rawQuery, "&"), 1)
    IN  [k \in {pairs[i][1] : i \in 1..Len(pairs)} |-> ValuesOf(pairs, k, 1)]

----------------------------------------------------------------------------
(* encoding/json: Unmarshal into interface{} *)
(* The grammar covers objects, arrays, strings without escapes, unsigned    *)
(* integers, true, false, null and spaces between tokens.  A decoded value  *)
(* is a record tagged t = "object" | "array" | "string" | "number" |        *)
(* "bool" | "null"; an object's v maps each key to its value (the last      *)
(* duplicate wins), an array's v is the sequence of its elements.           *)

JsonFail == [ok |-> FALSE, val |-> [t |-> "null"], next |-> 0]
JsonOk(val, next) == [ok |-> TRUE, val |-> val, next |-> next]

RECURSIVE SkipSpaces(_, _)
SkipSpaces(s, i) ==
    IF i <= Len(s) /\ s[i] = " " THEN SkipSpaces(s, i + 1) ELSE i

\* the position after the digits that start at i
RECURSIVE DigitsEnd(_, _)
DigitsEnd(s, i) ==
    IF i <= Len(s) /\ s[i] \in Chars.Digit THEN DigitsEnd(s, i + 1) ELSE i

JsonLiteral(s, i, word, val) ==
    IF SubSeq(s, i, i + Len(word) - 1) = word
    THEN JsonOk(val, i + Len(word)) ELSE JsonFail

RECURSIVE ParseValue(_, _)
RECURSIVE ParseMembers(_, _, _)
RECURSIVE ParseElements(_, _, _)

\* the members of an object after "{" or ",": i is at the next key
ParseMembers(s, i0, acc) ==
    LET i == SkipSpaces(s, i0)
        close == IF i <= Len(s) /\ s[i] = "\"" THEN IndexFrom(s, "\"", i + 1) ELSE 0
        key == SubSeq(s, i + 1, close - 1)
        colon == SkipSpaces(s, close + 1)
        v == ParseValue(s, colon + 1)
        after == SkipSpaces(s, v.next)
        acc2 == [k \in DOMAIN acc \cup {key} |-> IF k = key THEN v.val ELSE acc[k]]
    IN  IF close = 0 THEN JsonFail
        ELSE IF colon > Len(s) \/ s[colon] # ":" THEN JsonFail
        ELSE IF ~v.ok \/ after > Len(s) THEN JsonFail
        ELSE IF s[after] = "}" THEN JsonOk([t |-> "object", v |-> acc2], after + 1)
        ELSE IF s[after] = "," THEN ParseMembers(s, after + 1, acc2)
        ELSE JsonFail

\* the elements of an array after "[" or ",": i is at the next element
ParseElements(s, i0, acc) ==
    LET v == ParseValue(s, i0)
        after == SkipSpaces(s, v.next)
    IN  IF ~v.ok \/ after > Len(s) THEN JsonFail
        ELSE IF s[after] = "]"
             THEN JsonOk([t |-> "array", v |-> Append(acc, v.val)], after + 1)
        ELSE IF s[after] = "," THEN ParseElements(s, after + 1, Append(acc, v.val))
        ELSE JsonFail

ParseValue(s, i0) ==
    LET i == SkipSpaces(s, i0)
    IN  IF i > Len(s) THEN JsonFail
        ELSE IF s[i] = "{"
             THEN LET j == SkipSpaces(s, i + 1)
                  IN  IF j <= Len(s) /\ s[j] = "}"
                      THEN JsonOk([t |-> "object", v |-> <<>>], j + 1)
                      ELSE ParseMembers(s, j, <<>>)
        ELSE IF s[i] = "["
             THEN LET j == SkipSpaces(s, i + 1)
                  IN  IF j <= Len(s) /\ s[j] = "]"
                      THEN JsonOk([t |-> "array", v |-> <<>>], j + 1)
                      ELSE ParseElements(s, j, <<>>)
        ELSE IF s[i] = "\""
             THEN LET close == IndexFrom(s, "\"", i + 1)
                  IN  IF close = 0 THEN JsonFail
                      ELSE JsonOk([t |-> "string", v |-> SubSeq(s, i + 1, close - 1)],
                                  close + 1)
        ELSE IF s[i] = "0" THEN JsonOk([t |-> "number"], i + 1)
        ELSE IF s[i] \in Chars.Digit THEN JsonOk([t |-> "number"], DigitsEnd(s, i))
        ELSE IF s[i] = "t" THEN JsonLiteral(s, i, <<"t", "r", "u", "e">>, [t |-> "bool"])
        ELSE IF s[i] = "f"
             THEN JsonLiteral(s, i, <<"f", "a", "l", "s", "e">>, [t |-> "bool"])
        ELSE IF s[i] = "n" THEN JsonLiteral(s, i, <<"n", "u", "l", "l">>, [t |-> "null"])
        ELSE JsonFail

\* json.Unmarshal([]byte(str), &v): one value, then only spaces
Unmarshal(str) ==
    LET v == ParseValue(str, 1)
    IN  IF v.ok /\ SkipSpaces(str, v.next) > Len(str) THEN v ELSE JsonFail

isJSON(str) == Unmarshal(str).ok

----------------------------------------------------------------------------
(* Lists of findings when loops run in an unspecified order *)

\* every list of A followed by every list of B
ConcatSets(A, B) == {a \o b : a \in A, b \in B}

\* the text-only scan of a body or URL segment: detectPIIInText(""...)
TextScan(text, location) == detectPIIInText(<<>>, text, location)

----------------------------------------------------------------------------
(* analyzeJSONForPII, analyzeJSONObject *)
(* The prefix / fullKey argument is built but never read for a finding; it  *)
(* is left out.                                                             *)

RECURSIVE analyzeJSONObject(_, _)
RECURSIVE ObjectLoop(_, _, _, _)
RECURSIVE ArrayLoop(_, _, _)

\* the inner switch on one member of an object
MemberFindings(key, value, location) ==
    IF value.t = "string" THEN detectPIIInField(key, value.v, location)
    ELSE IF value.t \in {"object", "array"} THEN analyzeJSONObject(value, location)
    ELSE {<<>>}

\* the range loop over an object's members in the order ord
ObjectLoop(obj, ord, i, location) ==
    IF i > Len(ord) THEN {<<>>}
    ELSE ConcatSets(MemberFindings(ord[i], obj[ord[i]], location),
                    ObjectLoop(obj, ord, i + 1, location))

\* the loop over an array's elements
ArrayLoop(items, i, location) ==
    IF i > Len(items) THEN {<<>>}
    ELSE ConcatSets(analyzeJSONObject(items[i], location),
                    ArrayLoop(items, i + 1, location))

analyzeJSONObject(data, location) ==
    IF data.t = "object"
    THEN UNION {ObjectLoop(data.v, ord, 1, location) : ord \in Perms(DOMAIN data.v)}
    ELSE IF data.t = "array" THEN ArrayLoop(data.v, 1, location)
    ELSE {<<>>}

\* variant: a document that is neither an object nor an array is scanned as
\* text
analyzeJSONForPII_ScalarAsText(jsonStr, location) ==
    LET jsonData == Unmarshal(jsonStr)
    IN  IF ~jsonData.ok \/ jsonData.val.t \notin {"object", "array"}
        THEN TextScan(jsonStr, location)
        ELSE analyzeJSONObject(jsonData.val, location)

analyzeJSONForPII(jsonStr, location) ==
    LET jsonData == Unmarshal(jsonStr)
    IN  IF ~jsonData.ok THEN TextScan(jsonStr, location)
        ELSE analyzeJSONObject(jsonData.val, location)

----------------------------------------------------------------------------
(* analyzeRequestHeaders, analyzeRequestBody, analyzeResponseBody *)

RECURSIVE HeaderLoop(_, _, _)
HeaderLoop(headers, ord, i) ==
    IF i > Len(ord) THEN {<<>>}
    ELSE ConcatSets(detectPIIInField(ord[i], headers[ord[i]], "request_headers"),
                    HeaderLoop(headers, ord, i + 1))

analyzeRequestHeaders(headers) ==
    UNION {HeaderLoop(headers, ord, 1) : ord \in Perms(DOMAIN headers)}

\* variant: a body that is not JSON is skipped
analyzeBody_NoFallback(body, location) ==
    IF body = <<>> \/ body = Str.sentinel THEN {<<>>}
    ELSE IF isJSON(body) THEN analyzeJSONForPII(body, location)
    ELSE {<<>>}

\* the common body of analyzeRequestBody and analyzeResponseBody
analyzeBody(body, location) ==
    IF body = <<>> \/ body = Str.sentinel THEN {<<>>}
    ELSE IF isJSON(body) THEN analyzeJSONForPII(body, location)
    ELSE TextScan(body, location)

analyzeRequestBody(body) == analyzeBody(body, "request_body")

analyzeResponseBody(body) == analyzeBody(body, "response_body")

----------------------------------------------------------------------------
(* inferFieldNameFromURL, analyzeURL *)

\* element k of a Go slice (indices from 0)
At(slice, k) == slice[k + 1]

\* variant: the segment after auth or authorization is not looked at
inferFieldNameFromURL_NoLookahead(pathSegments, currentIndex) ==
    IF currentIndex <= 0 \/ currentIndex >= Len(pathSegments) THEN Str.url_path_segment
    ELSE LET previousSegment == ToLower(At(pathSegments, currentIndex - 1))
         IN  IF previousSegment \in {Str.apikey, Str.api_dash_key, Str.api_key} THEN Str.apikey
             ELSE IF previousSegment \in {Str.token, Str.access_dash_token, Str.access_token}
                  THEN Str.token
             ELSE IF previousSegment = Str.key THEN Str.key
             ELSE IF previousSegment \in {Str.id, Str.userid, Str.user_dash_id, Str.user_id}
                  THEN Str.id
             ELSE IF previousSegment \in {Str.email, Str.phone, Str.ssn, Str.sin}
                  THEN previousSegment
             ELSE IF previousSegment \in {Str.auth, Str.authorization} THEN Str.auth_token
             ELSE IF Contains(previousSegment, Str.key) THEN Str.apikey
             ELSE IF Contains(previousSegment, Str.token) THEN Str.token
             ELSE IF Contains(previousSegment, Str.id) THEN Str.id
             ELSE Str.url_path_segment

inferFieldNameFromURL(pathSegments, currentIndex) ==
    IF currentIndex <= 0 \/ currentIndex >= Len(pathSegments) THEN Str.url_path_segment
    ELSE LET previousSegment == ToLower(At(pathSegments, currentIndex - 1))
         IN  IF previousSegment \in {Str.apikey, Str.api_dash_key, Str.api_key} THEN Str.apikey
             ELSE IF previousSegment \in {Str.token, Str.access_dash_token, Str.access_token}
                  THEN Str.token
             ELSE IF previousSegment = Str.key THEN Str.key
             ELSE IF previousSegment \in {Str.id, Str.userid, Str.user_dash_id, Str.user_id}
                  THEN Str.id
             ELSE IF previousSegment = Str.email THEN Str.email
             ELSE IF previousSegment = Str.phone THEN Str.phone
             ELSE IF previousSegment = Str.ssn THEN Str.ssn
             ELSE IF previousSegment = Str.sin THEN Str.sin
             ELSE IF previousSegment \in {Str.auth, Str.authorization}
                  THEN (IF /\ currentIndex + 1 < Len(pathSegments)
                           /\ ToLower(At(pathSegments, currentIndex + 1)) \in {Str.apikey, Str.key}
                        THEN Str.apikey ELSE Str.auth_token)
             ELSE IF Contains(previousSegment, Str.key) THEN Str.apikey
             ELSE IF Contains(previousSegment, Str.token) THEN Str.token
             ELSE IF Contains(previousSegment, Str.id) THEN Str.id
             ELSE Str.url_path_segment

\* variant: the extra scan is run whatever the inferred name
SegmentFindings_AlwaysExtraScan(pathSegments, i) ==
    LET segment == At(pathSegments, i)
        fieldName == inferFieldNameFromURL(pathSegments, i)
    IN  IF segment = <<>> THEN {<<>>}
        ELSE ConcatSets(
                detectPIIInField(fieldName, segment, "url_path"),
                {TagFieldName(vf, Str.url_segment_ \o Itoa(i)) :
                    vf \in TextScan(segment, "url_path")})

\* variant: the extra scan is never run
SegmentFindings_NoExtraScan(pathSegments, i) ==
    IF At(pathSegments, i) = <<>> THEN {<<>>}
    ELSE detectPIIInField(inferFieldNameFromURL(pathSegments, i), At(pathSegments, i),
                          "url_path")

\* the body of the path loop for the segment of index i
SegmentFindings(pathSegments, i) ==
    LET segment == At(pathSegments, i)
        fieldName == inferFieldNameFromURL(pathSegments, i)
    IN  IF segment = <<>> THEN {<<>>}
        ELSE ConcatSets(
                detectPIIInField(fieldName, segment, "url_path"),
                IF fieldName = Str.url_path_segment
                THEN {TagFieldName(vf, Str.url_segment_ \o Itoa(i)) :
                        vf \in TextScan(segment, "url_path")}
                ELSE {<<>>})

RECURSIVE PathLoop(_, _)
PathLoop(pathSegments, i) ==
    IF i >= Len(pathSegments) THEN {<<>>}
    ELSE ConcatSets(SegmentFindings(pathSegments, i), PathLoop(pathSegments, i + 1))

\* the inner loop over the values of one query key
RECURSIVE QueryValuesLoop(_, _, _)
QueryValuesLoop(key, values, i) ==
    IF i > Len(values) THEN {<<>>}
    ELSE ConcatSets(detectPIIInField(key, values[i], "query_params"),
                    QueryValuesLoop(key, values, i + 1))

\* the range loop over the query map in the order ord
RECURSIVE QueryLoop(_, _, _)
QueryLoop(queryParams, ord, i) ==
    IF i > Len(ord) THEN {<<>>}
    ELSE ConcatSets(QueryValuesLoop(ord[i], queryParams[ord[i]], 1),
                    QueryLoop(queryParams, ord, i + 1))

\* variant: a URL that does not decode is not analysed
analyzeURL_NoRawFallback(urlString) ==
    LET unescaped == QueryUnescape(urlString)
        parsedURL == ParseURL(unescaped.val)
        pathSegments == Split(parsedURL.Path, "/")
        queryParams == Query(parsedURL.RawQuery)
    IN  IF unescaped.err \/ parsedURL.err THEN {<<>>}
        ELSE ConcatSets(
                PathLoop(pathSegments, 0),
                UNION {QueryLoop(queryParams, ord, 1) : ord \in Perms(DOMAIN queryParams)})

analyzeURL(urlString) ==
    LET unescaped == QueryUnescape(urlString)
        decodedURL == IF unescaped.err THEN urlString ELSE unescaped.val
        parsedURL == ParseURL(decodedURL)
        pathSegments == Split(parsedURL.Path, "/")
        queryParams == Query(parsedURL.RawQuery)
    IN  IF parsedURL.err THEN {<<>>}
        ELSE ConcatSets(
                PathLoop(pathSegments, 0),
                UNION {QueryLoop(queryParams, ord, 1) : ord \in Perms(DOMAIN queryParams)})

----------------------------------------------------------------------------
(* AnalyzePIIInAPIData *)

\* variant: the URL is analysed first
AnalysisFindings_URLFirst(apiData) ==
    ConcatSets(analyzeURL(apiData.URL),
        ConcatSets(analyzeRequestHeaders(apiData.Headers),
            ConcatSets(analyzeRequestBody(apiData.RequestBody),
                       analyzeResponseBody(apiData.ResponseBody))))

\* the finding lists the four analyses may append, in the order of the calls
AnalysisFindings(apiData) ==
    ConcatSets(analyzeRequestHeaders(apiData.Headers),
        ConcatSets(analyzeRequestBody(apiData.RequestBody),
            ConcatSets(analyzeResponseBody(apiData.ResponseBody),
                       analyzeURL(apiData.URL))))

\* time.Now() at the calls, in hours; 0 is the zero time.Time
Now == 48

\* PIIAnalysisResult for one finding list
AnalysisResult(apiData, findings) ==
    [APIEndpoint |-> apiData.APIEndpoint, Method |-> apiData.Method,
     URL |-> apiData.URL, Findings |-> findings, TotalCount |-> Len(findings),
     Timestamp |-> Now,
     RiskScore |-> calculateRiskMetrics(findings).RiskScore,
     HighestRisk |-> calculateRiskMetrics(findings).HighestRisk]

\* the results AnalyzePIIInAPIData may return
AnalyzePIIInAPIData(apiData) ==
    {AnalysisResult(apiData, findings) : findings \in AnalysisFindings(apiData)}

----------------------------------------------------------------------------
(* Inputs of the calls *)

\* the values the calls are made with: field names, field values and texts,
\* risk levels, header maps, bodies, URLs, and the path segments before and
\* after the segment whose name is inferred
Inputs ==
    [FieldName |->
        {<<>>, Str.email, Str.Email, Str.cc, Str.ccid, Str.Ccid, Str.id, Str.x, Str.creditCardNumber,
         Str.visa, Str.maestro},
     Value |->
        {<<>>, Str.a_at_b, Str.two_emails, Str.card_number, Str.d1234, Str.d123, Str.d12abcd},
     RiskLevel |->
        {"INFO", "LOW", "MEDIUM", "HIGH", "CRITICAL", "SEVERE", "NONE"},
     Header |->
        {<<>>,
         [h \in {Str.email} |-> Str.a_at_b],
         [h \in {Str.ccid, Str.x} |-> IF h = Str.ccid THEN <<>> ELSE Str.d1234]},
     RequestBody |->
        {<<>>, Str.sentinel, Str.Body_email, Str.two_emails, Str.d1234, Str.Body_string,
         Str.Body_true},
     ResponseBody |->
        {<<>>, Str.Body_id, Str.Body_nested, Str.Body_number},
     URL |->
        {<<>>, <<"/">>, Str.Url_id, Str.Url_query, Str.Url_host, Str.Url_bad_escape, Str.Url_two,
         Str.Url_bad_path, Str.Url_bad_query, Str.Url_twice},
     PreviousSegment |->
        {Str.apikey, Str.api_dash_key, Str.api_key, Str.token, Str.access_dash_token,
         Str.access_token, Str.key, Str.id, Str.userid, Str.user_dash_id, Str.user_id,
         Str.email, Str.phone, Str.ssn, Str.sin, Str.auth, Str.authorization,
         Str.Key, Str.Token, Str.Id, Str.Auth, Str.Email,
         Str.monkey, Str.tokens, Str.uid, Str.keytoken, Str.tokenid,
         Str.users, Str.x, Str.d42},
     NextSegment |->
        {Str.apikey, Str.key, Str.Key, Str.token, Str.x}]

MaskInputs == StringsUpTo(Chars.Mask, MaxLen)


\* finding lists handed to calculateRiskMetrics: it reads RiskLevel only
RiskFindingInputs ==
    UNION {[1..n -> {Finding("p", <<"*">>, Str.x, "request_body", "value_only",
                             [RiskLevel |-> l, Category |-> "other"], <<"x">>) :
                        l \in Inputs.RiskLevel}] : n \in 0..MaxFindings}


\* db.UserAPIData as read by the analysis
APIDataInputs ==
    {[APIEndpoint |-> Str.api, Method |-> "GET", Headers |-> h, RequestBody |-> rq,
      ResponseBody |-> rs, URL |-> u] :
        h \in Inputs.Header, rq \in Inputs.RequestBody, rs \in Inputs.ResponseBody,
        u \in Inputs.URL}

NoArgs == [none |-> TRUE]

\* the consumer as NewKafkaConsumerService returns it: Start has not been
\* called, no message is fetched, no offset committed, the reader is open
NewKafkaConsumerService ==
    [pc |-> "new", ctxDone |-> FALSE, nextOffset |-> 0, fetchErr |-> FALSE,
     msg |-> [Offset |-> 0, Value |-> [json |-> "none"]],
     decoded |-> "none", analysed |-> FALSE, saved |-> "none", commit |-> "none",
     committed |-> {}, closed |-> 0]

----------------------------------------------------------------------------
(* The service: NewPIIService, then one call at a time *)

Init ==
    /\ config \in Configs
    /\ compiledRegex = CompiledRegexOf(config)
    /\ keywordRegex = KeywordRegexOf(config)
    /\ op = "idle"
    /\ args = NoArgs
    /\ ret = NoArgs
    /\ userAPIData = <<>>
    /\ piiReports = <<>>
    /\ kafka = NewKafkaConsumerService

CallMaskSensitiveValue ==
    /\ op = "idle"
    /\ \E v \in MaskInputs :
        /\ args' = [value |-> v]
        /\ ret' = [masked |-> maskSensitiveValue(v)]
    /\ op' = "maskSensitiveValue"
    /\ UNCHANGED <<svcVars, dbVars, kafka>>

CallCalculateRiskMetrics ==
    /\ op = "idle"
    /\ \E fs \in RiskFindingInputs :
        /\ args' = [findings |-> fs]
        /\ ret' = calculateRiskMetrics(fs)
    /\ op' = "calculateRiskMetrics"
    /\ UNCHANGED <<svcVars, dbVars, kafka>>


\* strings.Split(path, "/") of /api/users/42/apikey/sk_live_abc123
Path_scenario == << <<>>, Str.api_word, Str.users, Str.d42, Str.apikey, Str.sk_live >>

\* split paths: the first segment is empty, as the path starts with a slash
PathSegmentsInputs ==
    {<< <<>>, p, Str.d1234 >> : p \in Inputs.PreviousSegment}
        \cup {<< <<>>, p, Str.d1234, n >> :
                    p \in {Str.auth, Str.authorization, Str.Auth, Str.monkey, Str.x},
                    n \in Inputs.NextSegment}
        \cup {Path_scenario}

CallInferFieldNameFromURL ==
    /\ op = "idle"
    /\ \E pathSegments \in PathSegmentsInputs :
        \E currentIndex \in 0..Len(pathSegments) :
            /\ args' = [pathSegments |-> pathSegments, currentIndex |-> currentIndex]
            /\ ret' = [fieldName |-> inferFieldNameFromURL(pathSegments, currentIndex)]
    /\ op' = "inferFieldNameFromURL"
    /\ UNCHANGED <<svcVars, dbVars, kafka>>

CallDetectPIIInText ==
    /\ op = "idle"
    /\ \E f \in Inputs.FieldName, t \in Inputs.Value, l \in Locations :
        /\ args' = [fieldNameLower |-> ToLower(f), text |-> t, location |-> l]
        /\ ret' \in {[findings |-> r] : r \in detectPIIInText(ToLower(f), t, l)}
    /\ op' = "detectPIIInText"
    /\ UNCHANGED <<svcVars, dbVars, kafka>>

CallDetectPIIInField ==
    /\ op = "idle"
    /\ \E f \in Inputs.FieldName, v \in Inputs.Value, l \in Locations :
        /\ args' = [fieldName |-> f, fieldValue |-> v, location |-> l]
        /\ ret' \in {[findings |-> r] : r \in detectPIIInField(f, v, l)}
    /\ op' = "detectPIIInField"
    /\ UNCHANGED <<svcVars, dbVars, kafka>>

CallAnalyzePIIInAPIData ==
    /\ op = "idle"
    /\ \E apiData \in APIDataInputs :
        /\ args' = [apiData |-> apiData]
        /\ ret' \in AnalyzePIIInAPIData(apiData)
    /\ op' = "AnalyzePIIInAPIData"
    /\ UNCHANGED <<svcVars, dbVars, kafka>>

\* the call returns to its caller
Return ==
    /\ op # "idle"
    /\ op' = "idle"
    /\ args' = NoArgs
    /\ ret' = NoArgs
    /\ UNCHANGED <<svcVars, dbVars, kafka>>

Next ==
    \/ CallMaskSensitiveValue
    \/ CallCalculateRiskMetrics
    \/ CallInferFieldNameFromURL
    \/ CallDetectPIIInText
    \/ CallDetectPIIInField
    \/ CallAnalyzePIIInAPIData
    \/ Return

Spec == Init /\ [][Next]_vars

----------------------------------------------------------------------------
(* HARService.ProcessAndStore (internal/services/har_service.go) and the    *)
(* "user_api_data" collection (db/user.go)                                  *)

\* most documents the model keeps in "user_api_data"
MaxDocs == 2

\* a byte that occurs in no UTF-8 encoding
InvalidByte == "\\xFF"

\* utf8.ValidString: every element is a character
ValidString(s) == \A i \in 1..Len(s) : s[i] # InvalidByte

\* db.PIIFinding as ProcessAndStore fills it (Tags and Timestamp are left
\* out)
StoredFinding(finding, piiAnalysis) ==
    [PIIType |-> finding.PIIType, DetectedValue |-> finding.DetectedValue,
     FieldName |-> finding.FieldName, Location |-> finding.Location,
     DetectionMode |-> finding.DetectionMode, RiskLevel |-> finding.RiskLevel,
     Category |-> finding.Category, PIICount |-> piiAnalysis.TotalCount,
     RiskScore |-> piiAnalysis.RiskScore, HighestRisk |-> piiAnalysis.HighestRisk,
     HasPII |-> piiAnalysis.TotalCount > 0,
     LastPIIAnalysis |-> piiAnalysis.Timestamp]

StoredFindings(piiAnalysis) ==
    [i \in 1..Len(piiAnalysis.Findings) |->
        StoredFinding(piiAnalysis.Findings[i], piiAnalysis)]

\* the PII types of the findings, each once, in the order of first occurrence
RECURSIVE SensitiveFieldsLoop(_, _, _)
SensitiveFieldsLoop(findings, i, sensitiveFields) ==
    IF i > Len(findings) THEN sensitiveFields
    ELSE SensitiveFieldsLoop(findings, i + 1,
            IF \E k \in 1..Len(sensitiveFields) : sensitiveFields[k] = findings[i].PIIType
            THEN sensitiveFields
            ELSE Append(sensitiveFields, findings[i].PIIType))

\* the body ProcessAndStore hands on: the sentinel for invalid UTF-8
\* variant: no UTF-8 check
StoredBody_KeepInvalid(body) == body

StoredBody(body) == IF ~ValidString(body) THEN Str.sentinel ELSE body

\* db.UserAPIData built from one har_parser.ExtractedInfo; the summary
\* fields has_pii, pii_count, risk_score, highest_risk keep their zero values
HarAPIData(info) ==
    [APIEndpoint |-> info.APIEndpoint, Method |-> info.Method,
     Headers |-> info.RequestHeaders, RequestBody |-> StoredBody(info.RequestBody),
     ResponseBody |-> StoredBody(info.ResponseBody), Source |-> "HAR File",
     URL |-> info.URL, PIIFindings |-> <<>>, SensitiveFields |-> <<>>,
     RiskLevel |-> "", HasPII |-> FALSE, PIICount |-> 0, RiskScore |-> 0,
     HighestRisk |-> "", LastPIIAnalysis |-> 0]

\* apiData with the results of its analysis, as handed to SaveUserAPIData
HarDocument(apiData, piiAnalysis) ==
    [apiData EXCEPT !.PIIFindings = StoredFindings(piiAnalysis),
                    !.SensitiveFields = SensitiveFieldsLoop(piiAnalysis.Findings, 1, <<>>),
                    !.RiskLevel = piiAnalysis.HighestRisk]

\* the state of the loop of ProcessAndStore after the entry of index i - 1:
\* docs is the collection, analyses the piiAnalysis of each entry so far
HarLoopStart(docs) ==
    [docs |-> docs, successCount |-> 0, errorCount |-> 0, piiFoundCount |-> 0,
     analyses |-> <<>>]

\* one entry: analysis, then SaveUserAPIData, which inserts the document or
\* fails (saved = FALSE)
HarEntryStep(st, info, piiAnalysis, saved) ==
    [docs |-> IF saved
              THEN Append(st.docs, HarDocument(HarAPIData(info), piiAnalysis))
              ELSE st.docs,
     successCount |-> st.successCount + (IF saved THEN 1 ELSE 0),
     errorCount |-> st.errorCount + (IF saved THEN 0 ELSE 1),
     piiFoundCount |-> st.piiFoundCount +
                        (IF saved /\ piiAnalysis.TotalCount > 0 THEN 1 ELSE 0),
     analyses |-> Append(st.analyses, piiAnalysis)]

\* the loop states ProcessAndStore may end in
RECURSIVE HarEntryLoop(_, _, _)
HarEntryLoop(extractedInfoList, i, st) ==
    IF i > Len(extractedInfoList) THEN {st}
    ELSE UNION {HarEntryLoop(extractedInfoList, i + 1,
                             HarEntryStep(st, extractedInfoList[i], piiAnalysis, saved)) :
                    piiAnalysis \in AnalyzePIIInAPIData(HarAPIData(extractedInfoList[i])),
                    saved \in BOOLEAN}

\* what ProcessAndStore returns, with the analyses it made
HarResult(st) ==
    [harErr |-> IF st.errorCount > 0 THEN "save" ELSE "nil",
     successCount |-> st.successCount, errorCount |-> st.errorCount,
     piiFoundCount |-> st.piiFoundCount, analyses |-> st.analyses]

\* har_parser.ExtractedInfo values
Body_invalid == Str.a_at_b \o <<InvalidByte>>

HarInfo(url, requestBody, responseBody) ==
    [Method |-> "GET", URL |-> url, APIEndpoint |-> url, RequestHeaders |-> <<>>,
     RequestBody |-> requestBody, ResponseBody |-> responseBody]

HarInfoInputs ==
    {HarInfo(Str.api, rq, rs) : rq \in {<<>>, Str.sentinel, Body_invalid, Str.two_emails},
                              rs \in {<<>>, Body_invalid, Str.Body_id}}
        \cup {HarInfo(Str.Url_id, Body_invalid, Body_invalid)}

\* HAR files: one that does not parse, and the entries of those that do
HarFileInputs ==
    {[parses |-> FALSE, entries |-> <<>>], [parses |-> TRUE, entries |-> <<>>]}
        \cup {[parses |-> TRUE, entries |-> <<i>>] : i \in HarInfoInputs}
        \cup {[parses |-> TRUE,
               entries |-> <<HarInfo(Str.api, Body_invalid, <<>>), i>>] :
                    i \in {HarInfo(Str.api, Str.two_emails, Body_invalid),
                           HarInfo(Str.Url_id, Body_invalid, Body_invalid)}}

ProcessAndStore ==
    /\ op = "idle"
    /\ \E har \in HarFileInputs :
        /\ Len(userAPIData) + Len(har.entries) <= MaxDocs
        /\ args' = [har |-> har]
        /\ IF ~har.parses
           THEN /\ ret' = [harErr |-> "parse", successCount |-> 0, errorCount |-> 0,
                           piiFoundCount |-> 0, analyses |-> <<>>]
                /\ UNCHANGED userAPIData
           ELSE \E st \in HarEntryLoop(har.entries, 1, HarLoopStart(userAPIData)) :
                    /\ ret' = HarResult(st)
                    /\ userAPIData' = st.docs
    /\ op' = "ProcessAndStore"
    /\ UNCHANGED <<svcVars, piiReports, kafka>>

HarNext ==
    \/ ProcessAndStore
    \/ Return

HarSpec == Init /\ [][HarNext]_vars

----------------------------------------------------------------------------
(* HARService.GeneratePIIComplianceReport (internal/services/har_service.go) *)
(* with GetPIIComplianceStats, FindAPIDataWithPII and SavePIIAnalysisReport  *)
(* (db/user.go)                                                              *)
(* compliance_percentage is float64(total-withPII) / float64(total) * 100.   *)
(* The model keeps it as the exact fraction num/den.  The thresholds 80 and  *)
(* 95 are compared with the same outcome: a quotient that is exactly 4/5 or  *)
(* 19/20 rounds to the double nearest 0.8 or 0.95, whose product with 100    *)
(* rounds to exactly 80 or 95, and any other quotient of int32 counts is     *)
(* farther from a threshold than the rounding of the two operations.         *)

\* most documents of "user_api_data" when a report is generated
MaxTotal == 20

\* most documents the model keeps in "pii_analysis_reports"
MaxReports == 1

\* what the analysis of a record without PII returns
EmptyAnalysis ==
    [APIEndpoint |-> Str.api, Method |-> "GET", URL |-> <<>>, Findings |-> <<>>,
     TotalCount |-> 0, RiskScore |-> 0, HighestRisk |-> "NONE", Timestamp |-> Now]

\* a PIIDetectionResult as the analysis returns it
SampleFinding(piiType, riskLevel, category) ==
    [PIIType |-> piiType, DetectedValue |-> Repeat("*", 3), FieldName |-> <<>>,
     Location |-> "request_body", DetectionMode |-> "value_only",
     RiskLevel |-> riskLevel, Category |-> category]

\* analyses of records with one finding of weight 2 (Low), with findings of
\* weights 5 and 3 (High), and with two findings of weight 5 (Top)
SampleAnalysis ==
    [Low |->
        [EmptyAnalysis EXCEPT
            !.Findings = <<SampleFinding("email", "MEDIUM", "contact")>>,
            !.TotalCount = 1, !.RiskScore = 2, !.HighestRisk = "MEDIUM"],
     High |->
        [EmptyAnalysis EXCEPT
            !.Findings = <<SampleFinding("card", "CRITICAL", "financial"),
                           SampleFinding("id_number", "HIGH", "identity")>>,
            !.TotalCount = 2, !.RiskScore = 8, !.HighestRisk = "CRITICAL"],
     Top |->
        [EmptyAnalysis EXCEPT
            !.Findings = <<SampleFinding("card", "CRITICAL", "financial"),
                           SampleFinding("ssn", "CRITICAL", "identity")>>,
            !.TotalCount = 2, !.RiskScore = 10, !.HighestRisk = "CRITICAL"]]

\* a stored document after UpdateUserAPIDataWithPII has set its findings
\* and its summary fields
UpdatedDocument(apiData, piiAnalysis) ==
    [apiData EXCEPT !.PIIFindings = StoredFindings(piiAnalysis),
                    !.PIICount = Len(piiAnalysis.Findings),
                    !.RiskScore = piiAnalysis.RiskScore,
                    !.HighestRisk = piiAnalysis.HighestRisk,
                    !.HasPII = Len(piiAnalysis.Findings) > 0,
                    !.LastPIIAnalysis = Now]

\* the collection of total documents of which the first withPII have PII.
\* With mostlyRisky every third of them has a risk score of 2 and the others
\* of 8 and 10 in turn; otherwise every fourth has a risk score of 8 or 10
\* and the others of 2
StoredCollection(total, withPII, mostlyRisky) ==
    LET apiData == HarAPIData(HarInfo(Str.api, <<>>, <<>>))
        AnalysisOf(i) ==
            IF mostlyRisky
            THEN (IF i % 3 = 0 THEN SampleAnalysis.Low
                  ELSE IF i % 3 = 1 THEN SampleAnalysis.High ELSE SampleAnalysis.Top)
            ELSE (IF i % 4 # 0 THEN SampleAnalysis.Low
                  ELSE IF i % 8 = 0 THEN SampleAnalysis.Top ELSE SampleAnalysis.High)
    IN  [i \in 1..total |->
            IF i > withPII THEN HarDocument(apiData, EmptyAnalysis)
            ELSE UpdatedDocument(apiData, AnalysisOf(i))]

StoredCollections ==
    UNION {{StoredCollection(total, withPII, mostlyRisky) :
                withPII \in 0..total, mostlyRisky \in BOOLEAN} :
                    total \in 0..MaxTotal}

\* $sum over the documents
SumOver(docs, field) ==
    LET sum[i \in 0..Len(docs)] == IF i = 0 THEN 0 ELSE sum[i - 1] + docs[i][field]
    IN  sum[Len(docs)]

\* $sum of a $cond: the number of documents whose field has the value
CondSum(docs, field, value) ==
    Cardinality({i \in 1..Len(docs) : docs[i][field] = value})

\* GetPIIComplianceStats: the $group aggregate over the collection.  An
\* empty collection gives no group, and the map of Go int values is
\* returned; otherwise the counts are int32 and the percentage a float64
GetPIIComplianceStats(docs) ==
    LET totalAPIs == Len(docs)
        apisWithPII == CondSum(docs, "HasPII", TRUE)
    IN  IF docs = <<>>
        THEN [countType |-> "int", percentageType |-> "int",
              total_apis |-> 0, apis_with_pii |-> 0, critical_risk_apis |-> 0,
              high_risk_apis |-> 0, avg_risk_score |-> [num |-> 0, den |-> 1],
              total_pii_findings |-> 0,
              compliance_percentage |-> [num |-> 100, den |-> 1]]
        ELSE [countType |-> "int32", percentageType |-> "float64",
              total_apis |-> totalAPIs, apis_with_pii |-> apisWithPII,
              critical_risk_apis |-> CondSum(docs, "HighestRisk", "CRITICAL"),
              high_risk_apis |-> CondSum(docs, "HighestRisk", "HIGH"),
              avg_risk_score |-> [num |-> SumOver(docs, "RiskScore"), den |-> totalAPIs],
              total_pii_findings |-> SumOver(docs, "PIICount"),
              compliance_percentage |->
                    IF totalAPIs > 0
                    THEN [num |-> (totalAPIs - apisWithPII) * 100, den |-> totalAPIs]
                    ELSE [num |-> 100, den |-> 1]]

\* FindAPIDataWithPII: the documents with has_pii, in the order of the
\* collection
FindAPIDataWithPII(docs) ==
    LET HasPII(d) == d.HasPII
    IN  SelectSeq(docs, HasPII)

\* variant: the inner loop does not stop at the first finding
RECURSIVE RiskyEndpointOf_NoBreak(_, _)
RiskyEndpointOf_NoBreak(apiData, i) ==
    IF i > Len(apiData.PIIFindings) THEN <<>>
    ELSE (IF apiData.PIIFindings[i].RiskScore > 5
          THEN <<[APIEndpoint |-> apiData.APIEndpoint, Method |-> apiData.Method,
                  RiskScore |-> apiData.PIIFindings[i].RiskScore,
                  PIICount |-> apiData.PIIFindings[i].PIICount,
                  HighestRisk |-> apiData.PIIFindings[i].HighestRisk]>>
          ELSE <<>>) \o RiskyEndpointOf_NoBreak(apiData, i + 1)

\* the inner loop of topRiskyEndpoints: the entry of the first finding of
\* apiData from index i on whose risk score exceeds 5, if there is one
RECURSIVE RiskyEndpointOf(_, _)
RiskyEndpointOf(apiData, i) ==
    IF i > Len(apiData.PIIFindings) THEN <<>>
    ELSE IF apiData.PIIFindings[i].RiskScore > 5
         THEN <<[APIEndpoint |-> apiData.APIEndpoint, Method |-> apiData.Method,
                 RiskScore |-> apiData.PIIFindings[i].RiskScore,
                 PIICount |-> apiData.PIIFindings[i].PIICount,
                 HighestRisk |-> apiData.PIIFindings[i].HighestRisk]>>
         ELSE RiskyEndpointOf(apiData, i + 1)

\* the outer loop, then the cut to ten entries
RECURSIVE TopRiskyLoop(_, _)
TopRiskyLoop(apisWithPII, i) ==
    IF i > Len(apisWithPII) THEN <<>>
    ELSE RiskyEndpointOf(apisWithPII[i], 1) \o TopRiskyLoop(apisWithPII, i + 1)

TopRiskyEndpoints(apisWithPII) ==
    LET topRiskyEndpoints == TopRiskyLoop(apisWithPII, 1)
    IN  IF Len(topRiskyEndpoints) > 10 THEN SubSeq(topRiskyEndpoints, 1, 10)
        ELSE topRiskyEndpoints

\* variant: COMPLIANT only above 95
ComplianceStatusOf_StrictAbove(stats) ==
    LET pct == stats.compliance_percentage
    IN  IF stats.percentageType # "float64" THEN "COMPLIANT"
        ELSE IF pct.num < 80 * pct.den THEN "NON_COMPLIANT"
        ELSE IF pct.num <= 95 * pct.den THEN "PARTIALLY_COMPLIANT"
        ELSE "COMPLIANT"

\* complianceStatus: the default stays when the percentage is no float64
ComplianceStatusOf(stats) ==
    LET pct == stats.compliance_percentage
    IN  IF stats.percentageType # "float64" THEN "COMPLIANT"
        ELSE IF pct.num < 80 * pct.den THEN "NON_COMPLIANT"
        ELSE IF pct.num < 95 * pct.den THEN "PARTIALLY_COMPLIANT"
        ELSE "COMPLIANT"

\* all findings of the documents, in order
RECURSIVE AllFindings(_)
AllFindings(apisWithPII) ==
    IF apisWithPII = <<>> THEN <<>>
    ELSE Head(apisWithPII).PIIFindings \o AllFindings(Tail(apisWithPII))

\* a breakdown map: the number of findings for each value of the field
Breakdown(findings, field) ==
    [v \in {findings[i][field] : i \in 1..Len(findings)} |->
        Cardinality({i \in 1..Len(findings) : findings[i][field] = v})]

\* the report before it is saved
BuildReport(stats, apisWithPII) ==
    LET findings == AllFindings(apisWithPII)
    IN  [TotalAPIsAnalyzed |-> stats.total_apis,
         APIsWithPII |-> stats.apis_with_pii,
         TotalPIIFindings |-> stats.total_pii_findings,
         RiskLevelBreakdown |-> Breakdown(findings, "RiskLevel"),
         CategoryBreakdown |-> Breakdown(findings, "Category"),
         DetectionModeBreakdown |-> Breakdown(findings, "DetectionMode"),
         TopRiskyEndpoints |-> TopRiskyEndpoints(apisWithPII),
         ComplianceStatus |-> ComplianceStatusOf(stats)]

NoReport == [none |-> TRUE]

\* GeneratePIIComplianceReport.  dbErr is the database call that fails, if
\* any; the type assertions .(int32) of the report literal panic on the
\* map of an empty collection
GeneratePIIComplianceReport ==
    /\ op = "idle"
    /\ Len(piiReports) < MaxReports
    /\ \E dbErr \in {"nil", "stats", "find", "save"} :
        LET stats == GetPIIComplianceStats(userAPIData)
            apisWithPII == FindAPIDataWithPII(userAPIData)
            report == BuildReport(stats, apisWithPII)
        IN  IF dbErr \in {"stats", "find"}
            THEN /\ ret' = [reportErr |-> dbErr, report |-> NoReport]
                 /\ UNCHANGED piiReports
            ELSE IF stats.countType # "int32"
            THEN /\ ret' = [reportErr |-> "panic", report |-> NoReport]
                 /\ UNCHANGED piiReports
            ELSE IF dbErr = "save"
            THEN /\ ret' = [reportErr |-> dbErr, report |-> NoReport]
                 /\ UNCHANGED piiReports
            ELSE /\ ret' = [reportErr |-> "nil", report |-> report]
                 /\ piiReports' = Append(piiReports, report)
    /\ args' = NoArgs
    /\ op' = "GeneratePIIComplianceReport"
    /\ UNCHANGED <<svcVars, userAPIData, kafka>>

\* the service over a collection that earlier runs have filled
ReportInit ==
    /\ config = ConfigA
    /\ compiledRegex = CompiledRegexOf(config)
    /\ keywordRegex = KeywordRegexOf(config)
    /\ op = "idle"
    /\ args = NoArgs
    /\ ret = NoArgs
    /\ userAPIData \in StoredCollections
    /\ piiReports = <<>>
    /\ kafka = NewKafkaConsumerService

ReportNext ==
    \/ GeneratePIIComplianceReport
    \/ Return

ReportSpec == ReportInit /\ [][ReportNext]_vars

----------------------------------------------------------------------------
(* HARService.ProcessExistingDataForPII (internal/services/har_service.go)  *)
(* with FindAllAPIData and UpdateUserAPIDataWithPII (db/user.go)            *)

\* the document the Kafka consumer saves: enrichUserAPIData sets the summary
\* fields of the document; its findings carry no summary and no time of
\* analysis
EnrichedDocument(apiData, piiAnalysis) ==
    [apiData EXCEPT
        !.Source = "Kafka Stream",
        !.HasPII = piiAnalysis.TotalCount > 0,
        !.PIICount = piiAnalysis.TotalCount,
        !.RiskScore = piiAnalysis.RiskScore,
        !.HighestRisk = piiAnalysis.HighestRisk,
        !.SensitiveFields = SensitiveFieldsLoop(piiAnalysis.Findings, 1, <<>>),
        !.PIIFindings =
            [i \in 1..Len(piiAnalysis.Findings) |->
                [StoredFinding(piiAnalysis.Findings[i], piiAnalysis) EXCEPT
                    !.PIICount = 0, !.RiskScore = 0, !.HighestRisk = "",
                    !.HasPII = FALSE, !.LastPIIAnalysis = 0]]]

\* Time.After
After(t, u) == t > u

\* variant: a record is analysed again when none of its findings was
\* analysed in the last 24 hours
NeedsAnalysis_OlderThanADay(apiData) ==
    ~\E i \in 1..Len(apiData.PIIFindings) :
        /\ apiData.PIIFindings[i].LastPIIAnalysis # 0
        /\ After(apiData.PIIFindings[i].LastPIIAnalysis, Now - 24)

\* needsAnalysis after the loop over the findings of the record
NeedsAnalysis(apiData) ==
    ~\E i \in 1..Len(apiData.PIIFindings) :
        /\ apiData.PIIFindings[i].LastPIIAnalysis # 0
        /\ After(apiData.PIIFindings[i].LastPIIAnalysis,
                 apiData.PIIFindings[i].LastPIIAnalysis - 24)

\* variant: UpdateOne, the first document with the key
UpdateUserAPIDataWithPII_First(docs, apiEndpoint, method, piiAnalysis) ==
    [i \in 1..Len(docs) |->
        IF /\ docs[i].APIEndpoint = apiEndpoint
           /\ docs[i].Method = method
           /\ \A j \in 1..(i - 1) :
                    docs[j].APIEndpoint # apiEndpoint \/ docs[j].Method # method
        THEN UpdatedDocument(docs[i], piiAnalysis)
        ELSE docs[i]]

\* UpdateUserAPIDataWithPII: UpdateMany on the filter api_endpoint, method
UpdateUserAPIDataWithPII(docs, apiEndpoint, method, piiAnalysis) ==
    [i \in 1..Len(docs) |->
        IF docs[i].APIEndpoint = apiEndpoint /\ docs[i].Method = method
        THEN UpdatedDocument(docs[i], piiAnalysis)
        ELSE docs[i]]

\* the state of the loop before the first record; log keeps, for each
\* record, what was done with it
RescanStart(docs) ==
    [docs |-> docs, processedCount |-> 0, piiFoundCount |-> 0, log |-> <<>>]

\* a record that needs no analysis
RescanSkip(st) ==
    [st EXCEPT !.log = Append(@, [analysed |-> FALSE, TotalCount |-> 0,
                                  update |-> "none"])]

\* a record that is analysed; updated says whether UpdateUserAPIDataWithPII
\* succeeds when it is called
RescanStep(st, apiData, piiAnalysis, updated) ==
    [docs |-> IF piiAnalysis.TotalCount > 0 /\ updated
              THEN UpdateUserAPIDataWithPII(st.docs, apiData.APIEndpoint,
                                            apiData.Method, piiAnalysis)
              ELSE st.docs,
     processedCount |-> st.processedCount + 1,
     piiFoundCount |-> st.piiFoundCount + (IF piiAnalysis.TotalCount > 0 THEN 1 ELSE 0),
     log |-> Append(st.log,
                [analysed |-> TRUE, TotalCount |-> piiAnalysis.TotalCount,
                 update |-> IF piiAnalysis.TotalCount = 0 THEN "none"
                            ELSE IF updated THEN "ok" ELSE "failed"])]

\* variant: the loop ends at the first update that fails
RECURSIVE RescanLoop_StopAtFailure(_, _, _)
RescanLoop_StopAtFailure(apiDataList, i, st) ==
    IF i > Len(apiDataList) THEN {st}
    ELSE IF st.log # <<>> /\ st.log[Len(st.log)].update = "failed" THEN {st}
    ELSE IF ~NeedsAnalysis(apiDataList[i])
         THEN RescanLoop_StopAtFailure(apiDataList, i + 1, RescanSkip(st))
    ELSE UNION {RescanLoop_StopAtFailure(apiDataList, i + 1,
                    RescanStep(st, apiDataList[i], piiAnalysis, updated)) :
                    piiAnalysis \in AnalyzePIIInAPIData(apiDataList[i]),
                    updated \in BOOLEAN}

\* the loop states ProcessExistingDataForPII may end in; apiDataList is the
\* result of FindAllAPIData before the loop
RECURSIVE RescanLoop(_, _, _)
RescanLoop(apiDataList, i, st) ==
    IF i > Len(apiDataList) THEN {st}
    ELSE IF ~NeedsAnalysis(apiDataList[i])
         THEN RescanLoop(apiDataList, i + 1, RescanSkip(st))
    ELSE UNION {RescanLoop(apiDataList, i + 1,
                    RescanStep(st, apiDataList[i], piiAnalysis, updated)) :
                    piiAnalysis \in AnalyzePIIInAPIData(apiDataList[i]),
                    updated \in BOOLEAN}

ProcessExistingDataForPII ==
    /\ op = "idle"
    /\ args' = [apiDataList |-> userAPIData]
    /\ \E found \in BOOLEAN :
        IF ~found
        THEN /\ ret' = [rescanErr |-> "find", processedCount |-> 0,
                        piiFoundCount |-> 0, log |-> <<>>]
             /\ UNCHANGED userAPIData
        ELSE \E st \in RescanLoop(userAPIData, 1, RescanStart(userAPIData)) :
                /\ ret' = [rescanErr |-> "nil", processedCount |-> st.processedCount,
                           piiFoundCount |-> st.piiFoundCount, log |-> st.log]
                /\ userAPIData' = st.docs
    /\ op' = "ProcessExistingDataForPII"
    /\ UNCHANGED <<svcVars, piiReports, kafka>>

\* the records the consumer and earlier HAR runs have stored
RecordInputs ==
    {HarAPIData(HarInfo(Str.api, Str.two_emails, <<>>)),
     HarAPIData(HarInfo(Str.api, <<>>, Str.Body_id)),
     HarAPIData(HarInfo(Str.Url_id, <<>>, <<>>))}

\* their documents: saved by the consumer, saved by ProcessAndStore now, a
\* long time ago, or without findings
DocumentInputs ==
    UNION {{EnrichedDocument(d, a) : a \in AnalyzePIIInAPIData(d)} : d \in RecordInputs}
        \cup {HarDocument(HarAPIData(HarInfo(Str.api, Str.two_emails, <<>>)),
                          [a EXCEPT !.Timestamp = t]) :
                a \in AnalyzePIIInAPIData(HarAPIData(HarInfo(Str.api, Str.two_emails, <<>>))),
                t \in {1, Now}}
        \cup {HarDocument(HarAPIData(HarInfo(Str.api, <<>>, <<>>)), EmptyAnalysis)}

BatchInit ==
    /\ config = ConfigA
    /\ compiledRegex = CompiledRegexOf(config)
    /\ keywordRegex = KeywordRegexOf(config)
    /\ op = "idle"
    /\ args = NoArgs
    /\ ret = NoArgs
    /\ userAPIData \in UNION {[1..n -> DocumentInputs] : n \in 0..MaxDocs}
    /\ piiReports = <<>>
    /\ kafka = NewKafkaConsumerService

BatchNext ==
    \/ ProcessAndStore
    \/ ProcessExistingDataForPII
    \/ Return

BatchSpec == BatchInit /\ [][BatchNext]_vars

----------------------------------------------------------------------------
(* Concurrent calls of AnalyzePIIInAPIData on one PIIService: the Kafka    *)
(* consumer and the request handlers share the service and take no lock    *)

\* the number of analyses that run at the same time
MaxAnalyses == 2

\* the result a call starts with, and the call's position
StartedAnalysis(apiData) ==
    [pc |-> "request_headers",
     result |-> [APIEndpoint |-> apiData.APIEndpoint, Method |-> apiData.Method,
                 URL |-> apiData.URL, Findings |-> <<>>, TotalCount |-> 0,
                 Timestamp |-> Now, RiskScore |-> 0, HighestRisk |-> ""]]

\* the finding lists the analysis at position pc may append
PartFindings(apiData, pc) ==
    CASE pc = "request_headers" -> analyzeRequestHeaders(apiData.Headers)
      [] pc = "request_body" -> analyzeRequestBody(apiData.RequestBody)
      [] pc = "response_body" -> analyzeResponseBody(apiData.ResponseBody)
      [] pc = "url" -> analyzeURL(apiData.URL)

\* the position after pc
NextPart(pc) ==
    CASE pc = "request_headers" -> "request_body"
      [] pc = "request_body" -> "response_body"
      [] pc = "response_body" -> "url"
      [] pc = "url" -> "metrics"
      [] pc = "metrics" -> "done"

\* variant: the calls append to one finding list that they share
AppendFindings_Shared(running, g, findings) ==
    [h \in DOMAIN running |->
        IF h = g THEN [pc |-> NextPart(running[h].pc),
                       result |-> [running[h].result EXCEPT
                                      !.Findings = @ \o findings]]
        ELSE IF running[h].pc = "done" THEN running[h]
        ELSE [running[h] EXCEPT !.result.Findings = @ \o findings]]

\* result.Findings = append(result.Findings, findings...): result is a local
\* of call g
AppendFindings(running, g, findings) ==
    [running EXCEPT ![g] = [pc |-> NextPart(@.pc),
                            result |-> [@.result EXCEPT
                                           !.Findings = @ \o findings]]]

\* TotalCount, RiskScore and HighestRisk of call g are filled in
SetMetrics(running, g) ==
    [running EXCEPT ![g] =
        [pc |-> NextPart(@.pc),
         result |-> [@.result EXCEPT
                        !.TotalCount = Len(running[g].result.Findings),
                        !.RiskScore =
                            calculateRiskMetrics(running[g].result.Findings).RiskScore,
                        !.HighestRisk =
                            calculateRiskMetrics(running[g].result.Findings).HighestRisk]]]

\* records analysed at the same time: one with headers whose order is open
\* and a body, one with a body and a URL
ConcurrentInputs ==
    {d \in APIDataInputs :
        /\ d.RequestBody = Str.Body_email
        /\ d.ResponseBody = <<>>
        /\ \/ DOMAIN d.Headers = {Str.ccid, Str.x} /\ d.URL = <<>>
           \/ d.Headers = <<>> /\ d.URL = Str.Url_id}

\* the callers enter AnalyzePIIInAPIData
StartAnalyses ==
    /\ op = "idle"
    /\ \E list \in [1..MaxAnalyses -> ConcurrentInputs] :
        /\ args' = [apiData |-> list]
        /\ ret' = [running |-> [g \in 1..MaxAnalyses |-> StartedAnalysis(list[g])]]
    /\ op' = "analyses"
    /\ UNCHANGED <<svcVars, dbVars, kafka>>

\* one of the calls runs its next statement
AnalysisStep ==
    /\ op = "analyses"
    /\ \E g \in DOMAIN ret.running :
        /\ ret.running[g].pc # "done"
        /\ IF ret.running[g].pc = "metrics"
           THEN ret' = [running |-> SetMetrics(ret.running, g)]
           ELSE \E findings \in PartFindings(args.apiData[g], ret.running[g].pc) :
                    ret' = [running |-> AppendFindings(ret.running, g, findings)]
    /\ UNCHANGED <<op, args, svcVars, dbVars, kafka>>

\* all calls have returned
AnalysesReturn ==
    /\ op = "analyses"
    /\ \A g \in DOMAIN ret.running : ret.running[g].pc = "done"
    /\ op' = "idle"
    /\ args' = NoArgs
    /\ ret' = NoArgs
    /\ UNCHANGED <<svcVars, dbVars, kafka>>

ConcNext ==
    \/ StartAnalyses
    \/ AnalysisStep
    \/ AnalysesReturn

ConcSpec == Init /\ [][ConcNext]_vars

----------------------------------------------------------------------------
(* KafkaConsumerService: Start, processMessage, commitMessage              *)

\* the messages the model lets the reader fetch
MaxMessages == 2

\* msg.Value as json.Unmarshal sees it: bytes that are no JSON document, or
\* the RawNginxLog they decode to
MessageInputs ==
    {[json |-> "invalid"]}
        \cup {[json |-> "object",
               rawLog |-> [Method |-> "GET", URI |-> uri, Host |-> Str.host,
                           RequestBody |-> body, ResponseBody |-> <<>>,
                           UserAgent |-> Str.x, ContentType |-> <<>>]] :
                <<uri, body>> \in {<<Str.Url_query, <<>> >>, <<Str.api, Str.two_emails>>,
                                   <<Str.api, <<>> >>}}

\* the position of the first "?" of s, 0 when there is none
QueryStart(s) ==
    IF \E i \in 1..Len(s) : s[i] = "?"
    THEN CHOOSE i \in 1..Len(s) : s[i] = "?" /\ \A j \in 1..(i - 1) : s[j] # "?"
    ELSE 0

\* db.UserAPIData of one log line
mapRawLogToUserAPIData(rawLog) ==
    [APIEndpoint |-> IF QueryStart(rawLog.URI) = 0 THEN rawLog.URI
                     ELSE SubSeq(rawLog.URI, 1, QueryStart(rawLog.URI) - 1),
     Method |-> rawLog.Method,
     URL |-> Str.http \o rawLog.Host \o rawLog.URI,
     Headers |-> [h \in {Str.User_Agent, Str.Content_Type} |->
                    IF h = Str.User_Agent THEN rawLog.UserAgent ELSE rawLog.ContentType],
     RequestBody |-> rawLog.RequestBody, ResponseBody |-> rawLog.ResponseBody,
     Source |-> "Kafka Stream", PIIFindings |-> <<>>, SensitiveFields |-> <<>>,
     RiskLevel |-> "", HasPII |-> FALSE, PIICount |-> 0, RiskScore |-> 0,
     HighestRisk |-> "", LastPIIAnalysis |-> 0]

\* variant: the loop ends at every fetch error
AfterFetchError_Break(ctxDone) == "stopped"

\* Start after FetchMessage returned an error: break when ctx.Err() != nil,
\* continue otherwise
AfterFetchError(ctxDone) == IF ctxDone THEN "stopped" ELSE "fetch"

\* variant: the offset is committed whether or not the save failed
AfterSave_Commit(saved) == "commit"

\* processMessage after SaveUserAPIData: return on an error, commit otherwise
AfterSave(saved) == IF saved THEN "commit" ELSE "fetch"

\* go kafkaConsumerService.Start(ctx)
Start ==
    /\ kafka.pc = "new"
    /\ kafka' = [kafka EXCEPT !.pc = "fetch"]
    /\ UNCHANGED <<svcVars, dbVars, op, args, ret>>

\* main cancels the context
Cancel ==
    /\ ~kafka.ctxDone
    /\ kafka' = [kafka EXCEPT !.ctxDone = TRUE]
    /\ UNCHANGED <<svcVars, dbVars, op, args, ret>>

\* s.reader.FetchMessage(ctx) returns the next message
FetchMessage ==
    /\ kafka.pc = "fetch"
    /\ kafka.nextOffset < MaxMessages
    /\ \E value \in MessageInputs :
        kafka' = [kafka EXCEPT !.pc = "process", !.fetchErr = FALSE,
                               !.msg = [Offset |-> kafka.nextOffset, Value |-> value],
                               !.nextOffset = @ + 1,
                               !.decoded = "none", !.analysed = FALSE,
                               !.saved = "none", !.commit = "none"]
    /\ UNCHANGED <<svcVars, dbVars, op, args, ret>>

\* s.reader.FetchMessage(ctx) returns an error, and Start tests ctx.Err():
\* the deferred s.reader.Close() runs when the loop is left
FetchError ==
    /\ kafka.pc = "fetch"
    /\ kafka' = [kafka EXCEPT
                    !.pc = AfterFetchError(kafka.ctxDone),
                    !.fetchErr = TRUE,
                    !.closed = IF AfterFetchError(kafka.ctxDone) = "stopped"
                               THEN @ + 1 ELSE @]
    /\ UNCHANGED <<svcVars, dbVars, op, args, ret>>

\* processMessage up to enrichUserAPIData: a payload that does not decode is
\* skipped; a decoded one is mapped, analysed and enriched
processMessage ==
    /\ kafka.pc = "process"
    /\ IF kafka.msg.Value.json = "invalid"
       THEN /\ kafka' = [kafka EXCEPT !.pc = "commit", !.decoded = "failed"]
            /\ UNCHANGED <<args, ret>>
       ELSE /\ kafka' = [kafka EXCEPT !.pc = "save", !.decoded = "ok",
                                      !.analysed = TRUE]
            /\ args' = [apiData |-> mapRawLogToUserAPIData(kafka.msg.Value.rawLog)]
            /\ \E piiAnalysis \in
                    AnalyzePIIInAPIData(mapRawLogToUserAPIData(kafka.msg.Value.rawLog)) :
                ret' = [document |->
                            EnrichedDocument(
                                mapRawLogToUserAPIData(kafka.msg.Value.rawLog),
                                piiAnalysis)]
    /\ UNCHANGED <<svcVars, dbVars, op>>

\* s.mongo.SaveUserAPIData(apiData) inserts the document or fails
SaveUserAPIData ==
    /\ kafka.pc = "save"
    /\ \E saved \in BOOLEAN :
        /\ kafka' = [kafka EXCEPT !.pc = AfterSave(saved),
                                  !.saved = IF saved THEN "ok" ELSE "failed"]
        /\ userAPIData' = IF saved THEN Append(userAPIData, ret.document)
                          ELSE userAPIData
    /\ args' = NoArgs
    /\ ret' = NoArgs
    /\ UNCHANGED <<svcVars, piiReports, op>>

\* s.reader.CommitMessages(ctx, msg) commits the offset or fails; the error
\* is logged
commitMessage ==
    /\ kafka.pc = "commit"
    /\ \E committed \in BOOLEAN :
        kafka' = [kafka EXCEPT
                    !.pc = "fetch",
                    !.commit = IF committed THEN "ok" ELSE "failed",
                    !.committed = IF committed THEN @ \cup {kafka.msg.Offset} ELSE @]
    /\ UNCHANGED <<svcVars, dbVars, op, args, ret>>

KafkaNext ==
    \/ Start
    \/ Cancel
    \/ FetchMessage
    \/ FetchError
    \/ processMessage
    \/ SaveUserAPIData
    \/ commitMessage

KafkaSpec == Init /\ [][KafkaNext]_vars

\* the consumer's goroutine keeps running, each call of processMessage
\* returns, and a FetchMessage under a cancelled context returns its error.
\* processMessage is enabled exactly when the consumer is at "process", and
\* its weak fairness is written with that guard in place of ENABLED
KafkaLiveSpec ==
    /\ KafkaSpec
    /\ WF_vars(Start)
    /\ SF_vars(FetchError /\ kafka.ctxDone)
    /\ ([]<>(kafka.pc # "process") \/ []<><<processMessage>>_vars)
    /\ WF_vars(SaveUserAPIData)
    /\ WF_vars(commitMessage)

----------------------------------------------------------------------------
(* Properties *)

\* the number of elements of a list that satisfy Test
CountIn(list, Test(_)) == Cardinality({i \in 1..Len(list) : Test(list[i])})

\* the configured weight of a risk level; a level without one adds nothing
Weight(level) ==
    IF level \in DOMAIN config.RiskLevels THEN config.RiskLevels[level] ELSE 0

RECURSIVE SumWeights(_)
SumWeights(findings) ==
    IF findings = <<>> THEN 0
    ELSE Weight(Head(findings).RiskLevel) + SumWeights(Tail(findings))

\* sub is a case-insensitive substring of s
CaseInsensitiveSubstring(sub, s) ==
    \E i \in 1..(Len(s) - Len(sub) + 1) :
        \A k \in 1..Len(sub) : LowerChar(s[i + k - 1]) = LowerChar(sub[k])

\* the field-based patterns with a field name contained in fieldName and a
\* compiled value regex that matches value
MatchingFieldPatterns(fieldName, value) ==
    {p \in DOMAIN config.FieldBased :
        /\ \E t \in 1..Len(config.FieldBased[p].FieldNames) :
                CaseInsensitiveSubstring(config.FieldBased[p].FieldNames[t], fieldName)
        /\ <<"field", p>> \in DOMAIN compiledRegex
        /\ MatchString(compiledRegex[<<"field", p>>], value)}

\* the keyword patterns whose compiled regex matches the field name
MatchingKeywordPatterns(fieldName) ==
    {k \in DOMAIN config.KeywordBased :
        k \in DOMAIN keywordRegex /\ MatchString(keywordRegex[k], fieldName)}

IsFieldBased(f) == f.DetectionMode = "field_based"
IsKeywordBased(f) == f.DetectionMode = "keyword_based"
IsValueOnly(f) == f.DetectionMode = "value_only"

\* C1: maskSensitiveValue(v) is as long as v; for len(v) <= 4 every character
\* is '*'; for len(v) > 4 the first two and last two characters are those of
\* v and every character in between is '*'.
C1_MaskShape ==
    op = "maskSensitiveValue" =>
        LET v == args.value
            n == Len(args.value)
        IN  /\ Len(ret.masked) = n
            /\ n <= 4 => \A i \in 1..n : ret.masked[i] = "*"
            /\ n > 4 => /\ ret.masked[1] = v[1] /\ ret.masked[2] = v[2]
                        /\ ret.masked[n - 1] = v[n - 1] /\ ret.masked[n] = v[n]
                        /\ \A i \in 3..(n - 2) : ret.masked[i] = "*"

C1_Witness ==
    /\ op = "maskSensitiveValue"
    /\ Len(args.value) > 4
    /\ \A i \in 1..Len(args.value) : args.value[i] # "*"
    /\ ret.masked # args.value

\* C2 (as claimed): no finding of an analysis has a masked value that contains
\* the raw text its pattern's regex matched.
C2_MaskedValueHidesMatch ==
    op = "AnalyzePIIInAPIData" =>
        \A i \in 1..Len(ret.Findings) :
            ~Contains(ret.Findings[i].DetectedValue, ret.Findings[i].Matched)

\* C3: for a non-empty finding list the risk score is the sum of the
\* configured weights of the findings' risk levels, for calculateRiskMetrics
\* and for the RiskScore of an analysis result.
C3_RiskScoreIsSum ==
    /\ (op = "calculateRiskMetrics" /\ Len(args.findings) > 0)
            => ret.RiskScore = SumWeights(args.findings)
    /\ (op = "AnalyzePIIInAPIData" /\ Len(ret.Findings) > 0)
            => ret.RiskScore = SumWeights(ret.Findings)

C3_Witness ==
    /\ op = "AnalyzePIIInAPIData"
    /\ Len(ret.Findings) >= 2
    /\ ret.RiskScore > Weight(ret.Findings[1].RiskLevel)
    /\ \E i \in 1..Len(ret.Findings) :
            ret.Findings[i].RiskLevel \notin DOMAIN config.RiskLevels

\* the first position of a finding of maximal weight
FirstMaxIndex(findings) ==
    CHOOSE i \in 1..Len(findings) :
        /\ \A j \in 1..Len(findings) :
                Weight(findings[j].RiskLevel) <= Weight(findings[i].RiskLevel)
        /\ \A j \in 1..(i - 1) :
                Weight(findings[j].RiskLevel) < Weight(findings[i].RiskLevel)

HighestRiskOrLow(findings, highestRisk) ==
    IF \E i \in 1..Len(findings) : Weight(findings[i].RiskLevel) > 0
    THEN highestRisk = findings[FirstMaxIndex(findings)].RiskLevel
    ELSE highestRisk = "LOW"

IsEmptyRecord(apiData) ==
    /\ DOMAIN apiData.Headers = {}
    /\ apiData.RequestBody = <<>>
    /\ apiData.ResponseBody = <<>>
    /\ apiData.URL \in {<<>>, <<"/">>}

\* C5: highestRisk = "NONE" and riskScore = 0 hold together exactly when the
\* finding list is empty; an empty record yields totalCount 0, riskScore 0
\* and highestRisk "NONE".
C5_NoneIffEmpty ==
    /\ op = "calculateRiskMetrics" =>
            ((ret.HighestRisk = "NONE" /\ ret.RiskScore = 0) <=> Len(args.findings) = 0)
    /\ op = "AnalyzePIIInAPIData" =>
            /\ (ret.HighestRisk = "NONE" /\ ret.RiskScore = 0) <=> Len(ret.Findings) = 0
            /\ IsEmptyRecord(args.apiData) =>
                    /\ ret.TotalCount = 0
                    /\ ret.RiskScore = 0
                    /\ ret.HighestRisk = "NONE"

C5_Witness ==
    /\ op = "AnalyzePIIInAPIData"
    /\ IsEmptyRecord(args.apiData)
    /\ args.apiData.URL = <<"/">>
    /\ ret.TotalCount = 0
    /\ ret.HighestRisk = "NONE"

\* C6: when at least one field-based pattern matches field name and value,
\* detectPIIInField returns exactly one field_based finding and no
\* keyword_based finding, also when two or more patterns match.
C6_FieldBasedSingleHit ==
    (op = "detectPIIInField"
        /\ MatchingFieldPatterns(args.fieldName, args.fieldValue) # {})
    => /\ CountIn(ret.findings, IsFieldBased) = 1
       /\ CountIn(ret.findings, IsKeywordBased) = 0
       /\ \A i \in 1..Len(ret.findings) :
            IsFieldBased(ret.findings[i]) =>
                ret.findings[i].PIIType \in MatchingFieldPatterns(args.fieldName, args.fieldValue)

C6_Witness ==
    /\ op = "detectPIIInField"
    /\ Cardinality(MatchingFieldPatterns(args.fieldName, args.fieldValue)) >= 2
    /\ MatchingKeywordPatterns(args.fieldName) # {}
    /\ CountIn(ret.findings, IsFieldBased) = 1

\* C7: when no field-based pattern hits, detectPIIInField returns exactly one
\* keyword_based finding for each keyword pattern whose compiled regex
\* matches the field name, and none for any other pattern.
C7_KeywordMultiHit ==
    (op = "detectPIIInField"
        /\ MatchingFieldPatterns(args.fieldName, args.fieldValue) = {})
    => /\ \A k \in DOMAIN config.KeywordBased :
            LET IsOfK(f) == IsKeywordBased(f) /\ f.PIIType = k
            IN  CountIn(ret.findings, IsOfK) =
                    IF k \in MatchingKeywordPatterns(args.fieldName) THEN 1 ELSE 0
       /\ CountIn(ret.findings, IsKeywordBased)
            = Cardinality(MatchingKeywordPatterns(args.fieldName))

C7_Witness ==
    /\ op = "detectPIIInField"
    /\ MatchingFieldPatterns(args.fieldName, args.fieldValue) = {}
    /\ Cardinality(MatchingKeywordPatterns(args.fieldName)) = 2
    /\ CountIn(ret.findings, IsKeywordBased) = 2
    /\ ~MatchString(Re.KwCc, args.fieldValue)

\* ret.findings ends with the findings of a value-only scan of the value, each tagged
\* with the field name, and holds no other value_only finding
EndsWithValueScan ==
    \E vf \in detectPIIInText(ToLower(args.fieldName), args.fieldValue, args.location) :
        /\ Len(ret.findings) >= Len(vf)
        /\ SubSeq(ret.findings, Len(ret.findings) - Len(vf) + 1, Len(ret.findings)) = TagFieldName(vf, args.fieldName)
        /\ CountIn(ret.findings, IsValueOnly) = Len(vf)

\* C8 (as claimed): every call of detectPIIInField, also one in which a
\* field-based pattern hit, appends the findings of the value-only scan.
C8_AlwaysValueScan ==
    op = "detectPIIInField" => EndsWithValueScan

\* C8 (amended): every call of detectPIIInField in which no field-based
\* pattern hit appends the findings of the value-only scan of the value,
\* tagged with the field name, whatever the keyword-based step found; a call
\* in which a field-based pattern hit returns that one finding and no
\* value_only finding.
C8_ValueScanUnlessFieldHit ==
    op = "detectPIIInField" =>
        IF MatchingFieldPatterns(args.fieldName, args.fieldValue) = {}
        THEN EndsWithValueScan
        ELSE Len(ret.findings) = 1 /\ CountIn(ret.findings, IsValueOnly) = 0

C8_Witness ==
    /\ op = "detectPIIInField"
    /\ MatchingFieldPatterns(args.fieldName, args.fieldValue) = {}
    /\ CountIn(ret.findings, IsKeywordBased) >= 1
    /\ CountIn(ret.findings, IsValueOnly) >= 1
    /\ args.fieldName # <<>>
    /\ \A i \in 1..Len(ret.findings) : ret.findings[i].FieldName = args.fieldName

\* the card-related substrings of the claim
CardWords ==
    {Str.card \o <<"n", "u", "m", "b", "e", "r">>, Str.cc \o <<"n", "u", "m", "b", "e", "r">>,
     <<"c", "r", "e", "d", "i", "t">> \o Str.card, Str.card, Str.cc, Str.visa, Str.visa \o Str.card,
     <<"m", "a", "s", "t", "e", "r">> \o Str.card, Str.maestro}

Suppressed(fieldNameLower, location) ==
    /\ location # "url_path"
    /\ \E w \in CardWords : Contains(fieldNameLower, w)

\* the value-only patterns whose regex compiled and matches the text
MatchingValuePatterns(text) ==
    {p \in DOMAIN config.ValueOnly :
        /\ <<"value", p>> \in DOMAIN compiledRegex
        /\ MatchString(compiledRegex[<<"value", p>>], text)}

\* C9: detectPIIInText suppresses the value-only patterns exactly when the
\* location is not url_path and the lower-cased field name contains a card
\* word: then it returns no finding, otherwise every pattern that matches
\* yields a finding; "creditCardNumber" with a card number outside url_path
\* gets no value_only finding from detectPIIInField.
C9_CardSuppression ==
    /\ op = "detectPIIInText" =>
        IF Suppressed(args.fieldNameLower, args.location)
        THEN ret.findings = <<>>
        ELSE \A p \in DOMAIN config.ValueOnly :
                LET IsOfP(f) == IsValueOnly(f) /\ f.PIIType = p
                IN  (p \in MatchingValuePatterns(args.text)) <=> CountIn(ret.findings, IsOfP) > 0
    /\ (op = "detectPIIInField" /\ args.fieldName = Str.creditCardNumber
            /\ args.fieldValue = Str.card_number /\ args.location # "url_path")
        => CountIn(ret.findings, IsValueOnly) = 0

C9_Witness ==
    /\ op = "detectPIIInText"
    /\ args.fieldNameLower = ToLower(Str.creditCardNumber)
    /\ args.text = Str.card_number
    /\ args.location = "request_body"
    /\ MatchingValuePatterns(args.text) # {}
    /\ ret.findings = <<>>

\* the match starts FindAllString keeps: a match position is kept unless an
\* earlier kept match overlaps it
KeptStarts(re, text) ==
    LET kept[i \in 0..Len(text)] ==
            IF i = 0 THEN {}
            ELSE IF /\ MatchAt(re, text, i)
                    /\ \A j \in kept[i - 1] : j + Len(re.cls) <= i
                 THEN kept[i - 1] \cup {i}
                 ELSE kept[i - 1]
    IN  kept[Len(text)]

\* the elements of a set of numbers in increasing order
RECURSIVE Sorted(_)
Sorted(S) ==
    IF S = {} THEN <<>>
    ELSE LET m == CHOOSE x \in S : \A y \in S : x <= y
         IN  <<m>> \o Sorted(S \ {m})

\* C10: for every value-only pattern that is not suppressed and whose regex
\* compiled, detectPIIInText emits one value_only finding per non-overlapping
\* match, in the order of the matches, each masking its own match.
C10_OneFindingPerMatch ==
    (op = "detectPIIInText" /\ ~Suppressed(args.fieldNameLower, args.location)) =>
        \A p \in DOMAIN config.ValueOnly :
            LET IsOfP(f) == f.PIIType = p
                found == SelectSeq(ret.findings, IsOfP)
                starts == IF <<"value", p>> \in DOMAIN compiledRegex
                          THEN Sorted(KeptStarts(compiledRegex[<<"value", p>>], args.text))
                          ELSE <<>>
                n == IF <<"value", p>> \in DOMAIN compiledRegex
                     THEN Len(compiledRegex[<<"value", p>>].cls) ELSE 0
            IN  /\ Len(found) = Len(starts)
                /\ \A m \in 1..Len(found) :
                        /\ found[m].DetectionMode = "value_only"
                        /\ found[m].Location = args.location
                        /\ found[m].DetectedValue =
                            maskSensitiveValue(SubSeq(args.text, starts[m], starts[m] + n - 1))

C10_Witness ==
    /\ op = "detectPIIInText"
    /\ args.text = Str.two_emails
    /\ Len(ret.findings) >= 2
    /\ \E i, j \in 1..Len(ret.findings) :
        /\ i < j
        /\ ret.findings[i].PIIType = "email" /\ ret.findings[j].PIIType = "email"
        /\ ret.findings[i].Matched = Str.a_at_b
        /\ ret.findings[j].Matched = <<"c", "@", "d">>

----------------------------------------------------------------------------
(* JSON bodies *)

\* the string leaves of a decoded JSON value, each with the name it lies
\* under: the key of the member that holds it, or for an element of an
\* array the name the array lies under
RECURSIVE StringLeaves(_, _)
StringLeaves(val, name) ==
    IF val.t = "string" THEN {[name |-> name, value |-> val.v]}
    ELSE IF val.t = "object"
         THEN UNION {StringLeaves(val.v[k], k) : k \in DOMAIN val.v}
    ELSE IF val.t = "array"
         THEN UNION {StringLeaves(val.v[i], name) : i \in DOMAIN val.v}
    ELSE {}

\* the bodies of a record with the location of their findings
BodiesOf(apiData) ==
    {[body |-> apiData.RequestBody, location |-> "request_body"],
     [body |-> apiData.ResponseBody, location |-> "response_body"]}

\* a body the analysis decodes as JSON
IsJSONBody(body) == body # <<>> /\ body # Str.sentinel /\ isJSON(body)

\* the findings of a list with a given location
AtLocation(findings, location) ==
    LET IsAt(f) == f.Location = location IN SelectSeq(findings, IsAt)

\* C11: in a JSON body every string leaf, at any depth and whether it is a
\* member of an object or an element of an array, is matched: a leaf whose
\* value a value-only pattern matches (and that no field-based pattern or
\* card suppression takes away) yields a finding of that pattern; a body
\* without string leaves yields no finding.
C11_EveryStringLeafMatched ==
    op = "AnalyzePIIInAPIData" =>
        \A b \in BodiesOf(args.apiData) :
            IsJSONBody(b.body) =>
                LET leaves == StringLeaves(Unmarshal(b.body).val, <<>>)
                    found == AtLocation(ret.Findings, b.location)
                IN  /\ leaves = {} => found = <<>>
                    /\ \A leaf \in leaves :
                        (/\ MatchingFieldPatterns(leaf.name, leaf.value) = {}
                         /\ ~Suppressed(ToLower(leaf.name), b.location)) =>
                            \A p \in MatchingValuePatterns(leaf.value) :
                                \E i \in 1..Len(found) :
                                    /\ found[i].PIIType = p
                                    /\ found[i].DetectionMode = "value_only"
                                    /\ Contains(leaf.value, found[i].Matched)

\* a body the analysis scans as raw text
IsTextBody(body) == body # <<>> /\ body # Str.sentinel /\ ~isJSON(body)

\* the findings of a list outside a given location
NotAtLocation(findings, location) ==
    LET IsElsewhere(f) == f.Location # location IN SelectSeq(findings, IsElsewhere)

\* a record with one of its bodies emptied
WithoutBody(apiData, location) ==
    IF location = "request_body" THEN [apiData EXCEPT !.RequestBody = <<>>]
    ELSE [apiData EXCEPT !.ResponseBody = <<>>]

\* C12: a non-empty, non-sentinel body that is not valid JSON is scanned as
\* raw text: its findings are the value-only matches in the body text, each
\* value_only with an empty field name, none field_based or keyword_based;
\* the rest of the record is analysed as it is without that body.
C12_NonJSONBodyFallback ==
    op = "AnalyzePIIInAPIData" =>
        \A b \in BodiesOf(args.apiData) :
            IsTextBody(b.body) =>
                LET found == AtLocation(ret.Findings, b.location)
                IN  /\ \A i \in 1..Len(found) :
                            /\ found[i].DetectionMode = "value_only"
                            /\ found[i].FieldName = <<>>
                    /\ \A p \in DOMAIN config.ValueOnly :
                            LET IsOfP(f) == f.PIIType = p
                            IN  CountIn(found, IsOfP) =
                                    IF <<"value", p>> \in DOMAIN compiledRegex
                                    THEN Cardinality(KeptStarts(compiledRegex[<<"value", p>>], b.body))
                                    ELSE 0
                    /\ \E r \in AnalyzePIIInAPIData(WithoutBody(args.apiData, b.location)) :
                            NotAtLocation(ret.Findings, b.location) = r.Findings

C12_Witness ==
    /\ op = "AnalyzePIIInAPIData"
    /\ args.apiData.RequestBody = Str.two_emails
    /\ IsTextBody(args.apiData.RequestBody)
    /\ Len(AtLocation(ret.Findings, "request_body")) = 2
    /\ Len(AtLocation(ret.Findings, "response_body")) > 0
    /\ Len(AtLocation(ret.Findings, "url_path")) > 0

----------------------------------------------------------------------------
(* HAR entries *)

\* the bodies of a HAR entry with the location of their findings
BodiesOfEntry(info) ==
    {[body |-> info.RequestBody, location |-> "request_body"],
     [body |-> info.ResponseBody, location |-> "response_body"]}

\* a body the analysis must skip: empty, the sentinel, or not valid UTF-8
\* when ProcessAndStore receives it
IsUnreadableBody(body) == body = <<>> \/ body = Str.sentinel \/ ~ValidString(body)

\* C13: a body that is empty or the sentinel "[Invalid UTF-8 or Binary
\* Data]" contributes no finding, and ProcessAndStore replaces a body that is
\* not valid UTF-8 by the sentinel before the analysis, so that it is stored
\* as the sentinel and contributes no finding either.
C13_UnreadableBodyNoFindings ==
    /\ op = "ProcessAndStore" =>
        \A i \in 1..Len(ret.analyses) :
            \A b \in BodiesOfEntry(args.har.entries[i]) :
                IsUnreadableBody(b.body) =>
                    AtLocation(ret.analyses[i].Findings, b.location) = <<>>
    /\ \A d \in 1..Len(userAPIData) :
        /\ ValidString(userAPIData[d].RequestBody)
        /\ ValidString(userAPIData[d].ResponseBody)
        /\ \A f \in 1..Len(userAPIData[d].PIIFindings) :
            LET location == userAPIData[d].PIIFindings[f].Location
            IN  /\ location = "request_body" =>
                        userAPIData[d].RequestBody \notin {<<>>, Str.sentinel}
                /\ location = "response_body" =>
                        userAPIData[d].ResponseBody \notin {<<>>, Str.sentinel}

C13_Witness ==
    /\ op = "ProcessAndStore"
    /\ Len(args.har.entries) = 2
    /\ args.har.entries[2].RequestBody = Str.two_emails
    /\ args.har.entries[2].ResponseBody = Body_invalid
    /\ Len(userAPIData) = 2
    /\ userAPIData[2].ResponseBody = Str.sentinel
    /\ Len(userAPIData[2].PIIFindings) = 2
    /\ userAPIData[1].RequestBody = Str.sentinel
    /\ userAPIData[1].PIIFindings = <<>>

----------------------------------------------------------------------------
(* Order of the findings of a record *)

\* the place of a location in the order headers, request body, response
\* body, URL path, query parameters (0 for any other location)
LocationRank(location) ==
    CASE location = "request_headers" -> 1
      [] location = "request_body" -> 2
      [] location = "response_body" -> 3
      [] location = "url_path" -> 4
      [] location = "query_params" -> 5
      [] OTHER -> 0

\* the findings of the URL, url_path and query_params
AtURL(findings) ==
    LET IsAtURL(f) == f.Location \in {"url_path", "query_params"}
    IN  SelectSeq(findings, IsAtURL)

\* C14: in every AnalysisResult the findings come in the order headers,
\* request body, response body, URL path, query parameters; every location
\* is one of these five, and the findings of a location are findings of
\* that part of the record.
C14_FindingsInPartOrder ==
    op = "AnalyzePIIInAPIData" =>
        LET fs == ret.Findings
            apiData == args.apiData
        IN  /\ \A i \in 1..Len(fs) : LocationRank(fs[i].Location) \in 1..5
            /\ \A i, j \in 1..Len(fs) :
                    i < j => LocationRank(fs[i].Location) <= LocationRank(fs[j].Location)
            /\ AtLocation(fs, "request_headers") \in analyzeRequestHeaders(apiData.Headers)
            /\ AtLocation(fs, "request_body") \in analyzeRequestBody(apiData.RequestBody)
            /\ AtLocation(fs, "response_body") \in analyzeResponseBody(apiData.ResponseBody)
            /\ AtURL(fs) \in analyzeURL(apiData.URL)

C14_Witness ==
    /\ op = "AnalyzePIIInAPIData"
    /\ \A l \in Locations : Len(AtLocation(ret.Findings, l)) > 0

\* C15: the analysis is deterministic: a record and a configuration have one
\* result, whatever the iteration order of the header map, the pattern
\* maps, the JSON object keys and the query parameters.
C15_Deterministic ==
    op = "AnalyzePIIInAPIData" =>
        \A r \in AnalyzePIIInAPIData(args.apiData) : r = ret

----------------------------------------------------------------------------
(* Field names inferred from the URL path *)

\* the name the table gives for the lower-cased previous segment prev, with
\* next the lower-cased following segment (<<>> when there is none)
NameOfPrevious(prev, next) ==
    CASE prev \in {Str.apikey, Str.api_dash_key, Str.api_key} -> Str.apikey
      [] prev \in {Str.token, Str.access_dash_token, Str.access_token} -> Str.token
      [] prev = Str.key -> Str.key
      [] prev \in {Str.id, Str.userid, Str.user_dash_id, Str.user_id} -> Str.id
      [] prev \in {Str.email, Str.phone, Str.ssn, Str.sin} -> prev
      [] prev \in {Str.auth, Str.authorization} ->
            IF next \in {Str.apikey, Str.key} THEN Str.apikey ELSE Str.auth_token
      [] OTHER ->
            IF Contains(prev, Str.key) THEN Str.apikey
            ELSE IF Contains(prev, Str.token) THEN Str.token
            ELSE IF Contains(prev, Str.id) THEN Str.id
            ELSE Str.url_path_segment

\* C16: for the segment of index i, inferFieldNameFromURL gives the name the
\* table gives for the lower-cased previous segment, exact entries before
\* substring rules, and url_path_segment for i = 0; the last segment of
\* /api/users/42/apikey/sk_live_abc123 gets apikey.
C16_InferredNameTable ==
    (op = "inferFieldNameFromURL" /\ args.currentIndex < Len(args.pathSegments)) =>
        LET segs == args.pathSegments
            i == args.currentIndex
        IN  /\ ret.fieldName =
                    IF i = 0 THEN Str.url_path_segment
                    ELSE NameOfPrevious(ToLower(segs[i]),
                            IF i + 2 <= Len(segs) THEN ToLower(segs[i + 2]) ELSE <<>>)
            /\ (segs = Path_scenario /\ i = Len(segs) - 1) => ret.fieldName = Str.apikey

C16_Witness ==
    /\ op = "inferFieldNameFromURL"
    /\ args.pathSegments = << <<>>, Str.Auth, Str.d1234, Str.Key >>
    /\ args.currentIndex = 2
    /\ ret.fieldName = Str.apikey

----------------------------------------------------------------------------
(* Scans of the URL path *)

\* the result of url.Parse on the URL as analyzeURL decodes it
ParsedURLOf(urlString) ==
    LET unescaped == QueryUnescape(urlString)
    IN  ParseURL(IF unescaped.err THEN urlString ELSE unescaped.val)

\* the split path of a URL that parses
PathSegmentsOf(urlString) == Split(ParsedURLOf(urlString).Path, "/")

\* the url_path findings that carry the field name
WithFieldName(findings, fieldName) ==
    LET HasName(f) == f.Location = "url_path" /\ f.FieldName = fieldName
    IN  SelectSeq(findings, HasName)

\* the segment of index i is the only one with its inferred name
OnlyOneNamed(segs, i) ==
    \A j \in 0..(Len(segs) - 1) :
        (j # i /\ At(segs, j) # <<>>) =>
            inferFieldNameFromURL(segs, j) # inferFieldNameFromURL(segs, i)

\* C17: the findings named url_segment_<i> are those of a value-only scan
\* of segment i when the segment is not empty and its inferred name is
\* url_path_segment, and there are none otherwise; the findings of a segment
\* with a contextual name are those of one call of detectPIIInField, so that
\* no value-only match in it is reported twice.
C17_ExtraScanIffGeneric ==
    (op = "AnalyzePIIInAPIData" /\ ~ParsedURLOf(args.apiData.URL).err) =>
        LET segs == PathSegmentsOf(args.apiData.URL)
            fs == ret.Findings
        IN  \A i \in 0..(Len(segs) - 1) :
                LET segment == At(segs, i)
                    fieldName == inferFieldNameFromURL(segs, i)
                    tag == Str.url_segment_ \o Itoa(i)
                IN  /\ (segment # <<>> /\ fieldName = Str.url_path_segment) =>
                        WithFieldName(fs, tag) \in
                            {TagFieldName(vf, tag) : vf \in TextScan(segment, "url_path")}
                    /\ ~(segment # <<>> /\ fieldName = Str.url_path_segment) =>
                        WithFieldName(fs, tag) = <<>>
                    /\ (segment # <<>> /\ fieldName # Str.url_path_segment
                            /\ OnlyOneNamed(segs, i)) =>
                        WithFieldName(fs, fieldName) \in
                            detectPIIInField(fieldName, segment, "url_path")

C17_Witness ==
    /\ op = "AnalyzePIIInAPIData"
    /\ args.apiData.URL = Str.Url_two
    /\ Len(WithFieldName(ret.Findings, Str.url_segment_ \o Itoa(1))) > 0
    /\ \E i \in 1..Len(ret.Findings) :
            /\ ret.Findings[i].Location = "url_path"
            /\ ret.Findings[i].FieldName = Str.id
            /\ ret.Findings[i].DetectionMode = "value_only"

----------------------------------------------------------------------------
(* URLs that do not decode or do not parse *)

\* url.QueryUnescape fails on the URL
DecodeFails(urlString) == QueryUnescape(urlString).err

\* url.Parse fails on the string analyzeURL hands to it
ParseFails(urlString) == ParsedURLOf(urlString).err

\* the findings of the path segments and query parameters read from the
\* raw URL string: the path is the text before the first "?", the query
\* the text after it
RawURLFindings(urlString) ==
    LET parts == Cut(urlString, "?")
        queryParams == Query(parts.after)
    IN  ConcatSets(
            PathLoop(Split(parts.before, "/"), 0),
            UNION {QueryLoop(queryParams, ord, 1) : ord \in Perms(DOMAIN queryParams)})

\* the header and body findings of the result are those of the record
HeaderAndBodyFindingsKept ==
    /\ AtLocation(ret.Findings, "request_headers")
            \in analyzeRequestHeaders(args.apiData.Headers)
    /\ AtLocation(ret.Findings, "request_body")
            \in analyzeRequestBody(args.apiData.RequestBody)
    /\ AtLocation(ret.Findings, "response_body")
            \in analyzeResponseBody(args.apiData.ResponseBody)

\* C18 as stated: when the URL does not decode or does not parse, the result
\* holds the header and body findings, and the URL findings are those of the
\* path segments and query parameters of the raw URL string.
C18_RawURLFallback ==
    (/\ op = "AnalyzePIIInAPIData"
     /\ DecodeFails(args.apiData.URL) \/ ParseFails(args.apiData.URL)) =>
        /\ HeaderAndBodyFindingsKept
        /\ AtURL(ret.Findings) \in RawURLFindings(args.apiData.URL)

\* C18 as amended: when the URL does not decode or does not parse, the
\* result holds the header and body findings; a URL that does not decode is
\* parsed as the raw string, and its path segments and query parameters are
\* inspected if that parse succeeds; when the parse fails the result has no
\* URL finding.
C18_FallbackOnlyWhenRawParses ==
    (/\ op = "AnalyzePIIInAPIData"
     /\ DecodeFails(args.apiData.URL) \/ ParseFails(args.apiData.URL)) =>
        /\ HeaderAndBodyFindingsKept
        /\ ParseFails(args.apiData.URL) => AtURL(ret.Findings) = <<>>
        /\ ~ParseFails(args.apiData.URL) =>
                AtURL(ret.Findings) \in RawURLFindings(args.apiData.URL)

C18_Witness ==
    /\ op = "AnalyzePIIInAPIData"
    /\ DecodeFails(args.apiData.URL)
    /\ ~ParseFails(args.apiData.URL)
    /\ Len(AtURL(ret.Findings)) > 0
    /\ Len(AtLocation(ret.Findings, "request_headers")) > 0

----------------------------------------------------------------------------
(* Patterns that do not compile *)

\* the configured patterns, as <<mode, name>>, whose regex does not compile
BadPatterns ==
    {<<"field_based", p>> : p \in {q \in DOMAIN config.FieldBased :
                                    ~Compiles(config.FieldBased[q].ValuePattern)}}
        \cup {<<"value_only", p>> : p \in {q \in DOMAIN config.ValueOnly :
                                    ~Compiles(config.ValueOnly[q].RegexPattern)}}
        \cup {<<"keyword_based", p>> : p \in {q \in DOMAIN config.KeywordBased :
                                    ~Compiles(config.KeywordBased[q].RegexPattern)}}

\* the patterns of one mode without those of BadPatterns
GoodOf(mode, patterns) ==
    [p \in {q \in DOMAIN patterns : <<mode, q>> \notin BadPatterns} |-> patterns[p]]

\* the configuration with every pattern of BadPatterns taken out
CleanConfig ==
    [config EXCEPT !.FieldBased = GoodOf("field_based", @),
                   !.ValueOnly = GoodOf("value_only", @),
                   !.KeywordBased = GoodOf("keyword_based", @)]

\* the field-based patterns of cfg that hit the field, by the pattern texts
FieldHits(cfg, fieldName, value) ==
    {p \in DOMAIN cfg.FieldBased :
        /\ \E t \in 1..Len(cfg.FieldBased[p].FieldNames) :
                CaseInsensitiveSubstring(cfg.FieldBased[p].FieldNames[t], fieldName)
        /\ cfg.FieldBased[p].ValuePattern # EmptyRegex
        /\ MatchString(cfg.FieldBased[p].ValuePattern, value)}

\* the keyword patterns of cfg that match the field name
KeywordHits(cfg, fieldName) ==
    {k \in DOMAIN cfg.KeywordBased :
        /\ cfg.KeywordBased[k].RegexPattern # EmptyRegex
        /\ MatchString(cfg.KeywordBased[k].RegexPattern, fieldName)}

\* the number of matches of value-only pattern p of cfg in the text
ValueMatches(cfg, p, text) ==
    IF p \in DOMAIN cfg.ValueOnly /\ cfg.ValueOnly[p].RegexPattern # EmptyRegex
    THEN Cardinality(KeptStarts(cfg.ValueOnly[p].RegexPattern, text))
    ELSE 0

\* the findings a call left in ret
FindingsOfCall ==
    IF op = "AnalyzePIIInAPIData" THEN ret.Findings
    ELSE IF op \in {"detectPIIInField", "detectPIIInText"} THEN ret.findings
    ELSE <<>>

\* C19: the service exists although patterns of its configuration do not
\* compile; no finding is of such a pattern; and detectPIIInField returns,
\* for every other pattern of every mode, the findings the configuration
\* without the bad patterns gives: the field-based hit, one keyword finding
\* per matching keyword pattern, one value-only finding per match.
C19_BadPatternSkipped ==
    /\ \A i \in 1..Len(FindingsOfCall) :
            <<FindingsOfCall[i].DetectionMode, FindingsOfCall[i].PIIType>> \notin BadPatterns
    /\ op = "detectPIIInField" =>
        LET fs == ret.findings
            hits == FieldHits(CleanConfig, args.fieldName, args.fieldValue)
        IN  IF hits # {}
            THEN /\ Len(fs) = 1
                 /\ IsFieldBased(fs[1])
                 /\ fs[1].PIIType \in hits
            ELSE /\ CountIn(fs, IsFieldBased) = 0
                 /\ \A k \in DOMAIN config.KeywordBased :
                        LET IsOfK(f) == IsKeywordBased(f) /\ f.PIIType = k
                        IN  CountIn(fs, IsOfK) =
                                IF k \in KeywordHits(CleanConfig, args.fieldName)
                                THEN 1 ELSE 0
                 /\ \A p \in DOMAIN config.ValueOnly :
                        LET IsOfP(f) == IsValueOnly(f) /\ f.PIIType = p
                        IN  CountIn(fs, IsOfP) =
                                IF Suppressed(ToLower(args.fieldName), args.location)
                                THEN 0
                                ELSE ValueMatches(CleanConfig, p, args.fieldValue)

C19_Witness ==
    /\ op = "detectPIIInField"
    /\ <<"field_based", "email">> \in BadPatterns
    /\ <<"value_only", "email">> \notin BadPatterns
    /\ args.fieldName = Str.email
    /\ args.fieldValue = Str.a_at_b
    /\ \E i \in 1..Len(ret.findings) :
            IsValueOnly(ret.findings[i]) /\ ret.findings[i].PIIType = "email"

----------------------------------------------------------------------------
(* Compliance report *)

\* the documents of the collection that have PII
WithPII == Cardinality({i \in 1..Len(userAPIData) : userAPIData[i].HasPII})

\* C20: with total > 0 records of which withPII have PII, the report's
\* complianceStatus is COMPLIANT iff (total - withPII) * 100 >= 95 * total,
\* PARTIALLY_COMPLIANT iff 80 * total <= (total - withPII) * 100 < 95 * total,
\* and NON_COMPLIANT otherwise.
C20_ComplianceStatusThresholds ==
    (/\ op = "GeneratePIIComplianceReport"
     /\ ret.reportErr = "nil"
     /\ Len(userAPIData) > 0) =>
        LET total == Len(userAPIData)
            clean == (total - WithPII) * 100
            status == ret.report.ComplianceStatus
        IN  /\ status = "COMPLIANT" <=> clean >= 95 * total
            /\ status = "PARTIALLY_COMPLIANT" <=>
                    (80 * total <= clean /\ clean < 95 * total)
            /\ status = "NON_COMPLIANT" <=> clean < 80 * total

C20_Witness ==
    /\ op = "GeneratePIIComplianceReport"
    /\ ret.reportErr = "nil"
    /\ Len(userAPIData) = 20
    /\ WithPII = 1
    /\ ret.report.ComplianceStatus = "COMPLIANT"
    /\ piiReports = <<ret.report>>

\* the call ended with neither a database error nor a returned report
NoDatabaseError == ret.reportErr \notin {"stats", "find", "save"}

\* C21: with no record in the store, building the report completes and
\* yields a saved report with status COMPLIANT, zero counts and an empty
\* topRiskyEndpoints list.
C21_EmptyStoreReport ==
    (/\ op = "GeneratePIIComplianceReport"
     /\ Len(userAPIData) = 0
     /\ NoDatabaseError) =>
        /\ ret.reportErr = "nil"
        /\ ret.report.ComplianceStatus = "COMPLIANT"
        /\ ret.report.TotalAPIsAnalyzed = 0
        /\ ret.report.APIsWithPII = 0
        /\ ret.report.TotalPIIFindings = 0
        /\ ret.report.TopRiskyEndpoints = <<>>
        /\ piiReports = <<ret.report>>

\* the index of the first finding of the document whose risk score exceeds
\* 5, or 0
FirstRisky(d) ==
    IF \E i \in 1..Len(d.PIIFindings) : d.PIIFindings[i].RiskScore > 5
    THEN CHOOSE i \in 1..Len(d.PIIFindings) :
            /\ d.PIIFindings[i].RiskScore > 5
            /\ \A j \in 1..(i - 1) : d.PIIFindings[j].RiskScore <= 5
    ELSE 0

\* the records with PII that have a finding over the threshold, in the
\* order of the collection
RiskyRecords ==
    LET IsRisky(d) == d.HasPII /\ FirstRisky(d) > 0
    IN  SelectSeq(userAPIData, IsRisky)

\* C22: topRiskyEndpoints holds, in the order of the collection, one entry
\* for each record with PII that has a finding with a risk score over 5,
\* taken from the first such finding, cut to the first 10 entries; with 12
\* PII records of which 3 are over the threshold it holds those 3.
C22_TopRiskyFirstTen ==
    (op = "GeneratePIIComplianceReport" /\ ret.reportErr = "nil") =>
        LET top == ret.report.TopRiskyEndpoints
            risky == RiskyRecords
        IN  /\ Len(top) = IF Len(risky) > 10 THEN 10 ELSE Len(risky)
            /\ \A k \in 1..Len(top) :
                    LET f == risky[k].PIIFindings[FirstRisky(risky[k])]
                    IN  top[k] = [APIEndpoint |-> risky[k].APIEndpoint,
                                  Method |-> risky[k].Method,
                                  RiskScore |-> f.RiskScore,
                                  PIICount |-> f.PIICount,
                                  HighestRisk |-> f.HighestRisk]
            /\ (WithPII = 12 /\ Len(risky) = 3) => Len(top) = 3

C22_Witness ==
    /\ op = "GeneratePIIComplianceReport"
    /\ ret.reportErr = "nil"
    /\ WithPII = 12
    /\ Len(RiskyRecords) = 3
    /\ Len(ret.report.TopRiskyEndpoints) = 3
    /\ ret.report.TopRiskyEndpoints[1].RiskScore < ret.report.TopRiskyEndpoints[2].RiskScore

----------------------------------------------------------------------------
(* Batches *)

\* C23: a save or update that fails does not end the batch.  ProcessAndStore
\* analyses every entry and attempts its save, and returns an error iff a
\* save failed; ProcessExistingDataForPII goes through every record, analyses
\* each one that needs it and attempts the update of each one with findings,
\* whatever happened to the records before it.
C23_FailureDoesNotAbortBatch ==
    /\ (op = "ProcessAndStore" /\ args.har.parses) =>
            /\ Len(ret.analyses) = Len(args.har.entries)
            /\ ret.successCount + ret.errorCount = Len(args.har.entries)
            /\ ret.harErr = IF ret.errorCount > 0 THEN "save" ELSE "nil"
    /\ (op = "ProcessExistingDataForPII" /\ ret.rescanErr = "nil") =>
            /\ Len(ret.log) = Len(args.apiDataList)
            /\ \A i \in 1..Len(ret.log) :
                    /\ ret.log[i].analysed <=>
                            \A k \in 1..Len(args.apiDataList[i].PIIFindings) :
                                args.apiDataList[i].PIIFindings[k].LastPIIAnalysis = 0
                    /\ ret.log[i].update # "none" <=>
                            (ret.log[i].analysed /\ ret.log[i].TotalCount > 0)

C23_Witness ==
    /\ op = "ProcessExistingDataForPII"
    /\ Len(ret.log) = 2
    /\ ret.log[1].update = "failed"
    /\ ret.log[2].update = "ok"
    /\ userAPIData # args.apiDataList

----------------------------------------------------------------------------
(* C24 *)

\* every call that has returned holds a result that a stand-alone call on its
\* record could return
ResultsAreSequential ==
    op = "analyses" =>
        \A g \in DOMAIN ret.running :
            ret.running[g].pc = "done" =>
                ret.running[g].result \in AnalyzePIIInAPIData(args.apiData[g])

\* the maps hold what NewPIIService compiled from the loaded configuration
ServiceAsConstructed ==
    /\ config \in Configs
    /\ compiledRegex = CompiledRegexOf(config)
    /\ keywordRegex = KeywordRegexOf(config)

\* C24: concurrent analyses on one PIIService never modify the configuration
\* or the compiled-regex maps, and under every interleaving the result of
\* each call is one that a sequential analysis of its record could return.
C24_ConcurrentAnalysesIndependent ==
    /\ [](ResultsAreSequential /\ ServiceAsConstructed)
    /\ [][op = "analyses" => UNCHANGED svcVars]_vars

\* two calls that interleaved have both returned, each with findings, and the
\* two results differ
C24_Witness ==
    /\ op = "analyses"
    /\ \A g \in DOMAIN ret.running :
        /\ ret.running[g].pc = "done"
        /\ ret.running[g].result.TotalCount > 0
    /\ ret.running[1].result.Findings # ret.running[2].result.Findings

----------------------------------------------------------------------------
(* C25 *)

\* processMessage has returned from the message the consumer holds
MessageHandled ==
    /\ kafka.pc \in {"fetch", "stopped"}
    /\ kafka.msg.Value.json # "none"

\* the message was skipped or its record was saved
SkippedOrSaved == kafka.decoded = "failed" \/ kafka.saved = "ok"

\* no commit before the save of a decoded message, none after a failed save,
\* and a payload that does not decode is neither analysed nor saved
CommitOrder ==
    /\ kafka.saved = "failed" => kafka.commit = "none" /\ kafka.pc # "commit"
    /\ (kafka.decoded = "ok" /\ (kafka.commit # "none" \/ kafka.pc = "commit"))
            => kafka.saved = "ok"
    /\ kafka.decoded = "failed" => ~kafka.analysed /\ kafka.saved = "none"
    /\ kafka.commit = "none" /\ kafka.msg.Value.json # "none"
            => kafka.msg.Offset \notin kafka.committed

\* C25 as stated: for every message handled by processMessage the offset is
\* committed if and only if the payload could not be decoded or the enriched
\* record was saved; after a failed save the call commits nothing, and no
\* commit precedes the save attempt of a decodable message.
C25_CommittedIffSkippedOrSaved ==
    /\ MessageHandled => (kafka.msg.Offset \in kafka.committed <=> SkippedOrSaved)
    /\ CommitOrder

\* C25, amended: processMessage calls commitMessage if and only if the
\* payload could not be decoded or the enriched record was saved, and the
\* offset is committed if and only if that call of CommitMessages returns no
\* error; after a failed save the call commits nothing, and no commit
\* precedes the save attempt of a decodable message.
C25_CommitAttemptedIffSkippedOrSaved ==
    /\ MessageHandled => (kafka.commit # "none" <=> SkippedOrSaved)
    /\ MessageHandled => (kafka.msg.Offset \in kafka.committed <=> kafka.commit = "ok")
    /\ CommitOrder

\* the first message's save failed and its offset stays uncommitted; the
\* second message's record, with findings, was saved and its offset committed
C25_Witness ==
    /\ MessageHandled
    /\ kafka.msg.Offset = 1
    /\ kafka.saved = "ok"
    /\ kafka.committed = {1}
    /\ Len(userAPIData) = 1
    /\ userAPIData[1].HasPII

----------------------------------------------------------------------------
(* C26 *)

\* the reader is closed when the loop is left, and only then
ClosedOnExit ==
    /\ kafka.closed = (IF kafka.pc = "stopped" THEN 1 ELSE 0)
    /\ kafka.pc = "stopped" => kafka.ctxDone /\ kafka.fetchErr

\* a fetch error under a live context is followed by the next fetch; the
\* loop is left from a fetch under a cancelled context, and never resumed
LoopSteps ==
    /\ (kafka.pc = "fetch" /\ kafka'.fetchErr /\ ~kafka.ctxDone) => kafka'.pc = "fetch"
    /\ (kafka.pc # "stopped" /\ kafka'.pc = "stopped")
            => kafka.pc = "fetch" /\ kafka.ctxDone /\ kafka'.closed = kafka.closed + 1
    /\ kafka.pc = "stopped" => kafka'.pc = "stopped" /\ kafka'.closed = kafka.closed

\* C26: Start loops until the context is cancelled: a fetch error under a
\* live context does not stop the loop, the loop exits only after a fetch
\* fails with the context cancelled, once the context is cancelled the loop
\* eventually exits, and the reader is closed exactly once on exit.
C26_ConsumerLoop ==
    /\ []ClosedOnExit
    /\ [][LoopSteps]_vars
    /\ (kafka.ctxDone ~> kafka.pc = "stopped")

\* the loop was left after the consumer handled messages and survived a
\* fetch error, and the reader is closed
C26_Witness ==
    /\ kafka.pc = "stopped"
    /\ kafka.closed = 1
    /\ kafka.nextOffset > 0
    /\ kafka.committed # {}

----------------------------------------------------------------------------
(* C27 *)

\* a body that decodes as a JSON number, string, boolean or null
IsScalarBody(body) ==
    IsJSONBody(body) /\ Unmarshal(body).val.t \notin {"object", "array"}

\* C27: a non-empty body that parses as a bare JSON scalar (a number, a
\* quoted string, true, false or null) produces no finding, even when its
\* text matches a value-only pattern: it goes to the JSON walker and not to
\* the raw-text scan.
C27_ScalarBodyNoFindings ==
    op = "AnalyzePIIInAPIData" =>
        \A b \in BodiesOf(args.apiData) :
            IsScalarBody(b.body) => AtLocation(ret.Findings, b.location) = <<>>

\* the request body is a bare number or a quoted string that a value-only
\* pattern matches, the raw-text scan would report it, and the record's other
\* parts have findings
C27_Witness ==
    /\ op = "AnalyzePIIInAPIData"
    /\ args.apiData.RequestBody \in {Str.d1234, Str.Body_string}
    /\ IsScalarBody(args.apiData.RequestBody)
    /\ MatchingValuePatterns(args.apiData.RequestBody) # {}
    /\ <<>> \notin TextScan(args.apiData.RequestBody, "request_body")
    /\ ret.TotalCount > 0
    /\ AtLocation(ret.Findings, "request_body") = <<>>

----------------------------------------------------------------------------
(* C28 *)

\* the indices of the non-empty segments whose inferred name is
\* url_path_segment
GenericSegments(segs) ==
    {i \in 0..(Len(segs) - 1) :
        At(segs, i) # <<>> /\ inferFieldNameFromURL(segs, i) = Str.url_path_segment}

\* the value-only findings of pattern p in a list
OfPattern(findings, p) ==
    LET IsOfP(f) == f.PIIType = p /\ f.DetectionMode = "value_only"
    IN  SelectSeq(findings, IsOfP)

\* the number of matches of value-only pattern p in a text
MatchCount(p, text) ==
    IF <<"value", p>> \in DOMAIN compiledRegex
    THEN Cardinality(KeptStarts(compiledRegex[<<"value", p>>], text))
    ELSE 0

\* the matches of p in the generic segments of index i and above
RECURSIVE GenericMatchesFrom(_, _, _)
GenericMatchesFrom(segs, i, p) ==
    IF i >= Len(segs) THEN 0
    ELSE (IF i \in GenericSegments(segs) THEN MatchCount(p, At(segs, i)) ELSE 0)
            + GenericMatchesFrom(segs, i + 1, p)

\* the risk weights of the findings named url_segment_<j>, j >= i
RECURSIVE TaggedWeightsFrom(_, _, _)
TaggedWeightsFrom(findings, segs, i) ==
    IF i >= Len(segs) THEN 0
    ELSE SumWeights(WithFieldName(findings, Str.url_segment_ \o Itoa(i)))
            + TaggedWeightsFrom(findings, segs, i + 1)

\* C28: when no field-based pattern hits a non-empty segment whose inferred
\* name is url_path_segment, every value-only match in the segment is
\* reported twice, once named url_path_segment and once named
\* url_segment_<i>, and so counts twice in totalCount and adds twice its
\* risk weight to riskScore.
C28_GenericSegmentReportedTwice ==
    (op = "AnalyzePIIInAPIData" /\ ~ParsedURLOf(args.apiData.URL).err) =>
        LET segs == PathSegmentsOf(args.apiData.URL)
            named == WithFieldName(ret.Findings, Str.url_path_segment)
        IN  (\A i \in GenericSegments(segs) :
                MatchingFieldPatterns(Str.url_path_segment, At(segs, i)) = {}) =>
                /\ \A p \in DOMAIN config.ValueOnly :
                    /\ \A i \in GenericSegments(segs) :
                        Len(OfPattern(WithFieldName(ret.Findings,
                                                    Str.url_segment_ \o Itoa(i)), p))
                            = MatchCount(p, At(segs, i))
                    /\ Len(OfPattern(named, p)) = GenericMatchesFrom(segs, 0, p)
                /\ SumWeights(named) = TaggedWeightsFrom(ret.Findings, segs, 0)
                /\ ret.TotalCount = Len(ret.Findings)
                /\ ret.RiskScore = SumWeights(ret.Findings)

\* the segment "1234" of /u/1234 has two matches of a value-only pattern and
\* four findings, two of each name, whose weights are all in the risk score
C28_Witness ==
    /\ op = "AnalyzePIIInAPIData"
    /\ args.apiData.URL = Str.Url_query
    /\ 2 \in GenericSegments(PathSegmentsOf(args.apiData.URL))
    /\ Len(WithFieldName(ret.Findings, Str.url_segment_ \o Itoa(2))) = 2
    /\ Len(WithFieldName(ret.Findings, Str.url_path_segment)) = 2
    /\ SumWeights(WithFieldName(ret.Findings, Str.url_path_segment)) > 0
    /\ ret.RiskScore >=
            2 * SumWeights(WithFieldName(ret.Findings, Str.url_path_segment))

----------------------------------------------------------------------------
(* C29 *)

\* some stored finding of the record has a time of analysis
HasAnalysedFinding(apiData) ==
    \E k \in 1..Len(apiData.PIIFindings) : apiData.PIIFindings[k].LastPIIAnalysis # 0

\* the re-scan analyses exactly the records without a dated finding
AnalysedIffUndated ==
    (op = "ProcessExistingDataForPII" /\ ret.rescanErr = "nil") =>
        \A i \in 1..Len(args.apiDataList) :
            ret.log[i].analysed <=> ~HasAnalysedFinding(args.apiDataList[i])

\* a stored record with a dated finding keeps one
StaysDated ==
    \A i \in 1..Len(userAPIData) :
        HasAnalysedFinding(userAPIData[i]) =>
            i <= Len(userAPIData') /\ HasAnalysedFinding(userAPIData'[i])

\* C29: ProcessExistingDataForPII analyses a stored record again if and only
\* if none of its stored findings has a non-zero time of last analysis; the
\* age of that time does not matter, so a record analysed more than 24 hours
\* ago is skipped, and no later re-scan analyses it.
C29_ReanalysedIffNoTimestamp ==
    /\ []AnalysedIffUndated
    /\ [][StaysDated]_vars

\* a record whose findings were analysed 47 hours ago is skipped by a
\* re-scan that analyses the record stored next to it
C29_Witness ==
    /\ op = "ProcessExistingDataForPII"
    /\ ret.rescanErr = "nil"
    /\ Len(args.apiDataList) = 2
    /\ HasAnalysedFinding(args.apiDataList[1])
    /\ args.apiDataList[1].PIIFindings[1].LastPIIAnalysis + 24 < Now
    /\ ~ret.log[1].analysed
    /\ ret.log[2].analysed
    /\ ret.log[2].TotalCount > 0

----------------------------------------------------------------------------
(* C30 *)

\* two documents with the same api_endpoint and method
SameKey(d, e) == d.APIEndpoint = e.APIEndpoint /\ d.Method = e.Method

\* the records of the list with the key of record j whose log entry
\* satisfies the test named by what: "found" for an analysis with findings,
\* "updated" for an update that succeeded
KeyMates(j, what) ==
    {i \in 1..Len(args.apiDataList) :
        /\ SameKey(args.apiDataList[i], args.apiDataList[j])
        /\ IF what = "found"
           THEN ret.log[i].analysed /\ ret.log[i].TotalCount > 0
           ELSE ret.log[i].update = "ok"}

\* the last element of a non-empty set of indices
Last(S) == CHOOSE i \in S : \A k \in S : k <= i

\* document j holds the findings and the summary of an analysis of record i
HoldsAnalysisOf(j, i) ==
    \E piiAnalysis \in AnalyzePIIInAPIData(args.apiDataList[i]) :
        /\ piiAnalysis.TotalCount > 0
        /\ userAPIData[j].PIIFindings = StoredFindings(piiAnalysis)
        /\ userAPIData[j].PIICount = piiAnalysis.TotalCount
        /\ userAPIData[j].RiskScore = piiAnalysis.RiskScore
        /\ userAPIData[j].HighestRisk = piiAnalysis.HighestRisk
        /\ userAPIData[j].HasPII

\* C30 as stated: after ProcessExistingDataForPII every stored record that
\* shares its key with an analysed record that had findings holds the
\* finding list, pii_count, risk score, highest risk and has_pii = true of
\* the last such record processed, also when its own analysis found no PII.
C30_SharedKeyHoldsLastAnalysed ==
    (op = "ProcessExistingDataForPII" /\ ret.rescanErr = "nil") =>
        /\ Len(userAPIData) = Len(args.apiDataList)
        /\ \A j \in 1..Len(userAPIData) :
            KeyMates(j, "found") # {} => HoldsAnalysisOf(j, Last(KeyMates(j, "found")))

\* C30, amended: each update of the re-scan that succeeds overwrites every
\* stored record with its (api_endpoint, method); after the re-scan every
\* stored record that shares its key with a record whose update succeeded
\* holds the finding list, pii_count, risk score, highest risk and
\* has_pii = true of the last such record, also when its own analysis found
\* no PII; an update that fails changes nothing, and a record whose key had
\* no successful update is left as it was stored.
C30_SharedKeyHoldsLastUpdate ==
    (op = "ProcessExistingDataForPII" /\ ret.rescanErr = "nil") =>
        /\ Len(userAPIData) = Len(args.apiDataList)
        /\ \A j \in 1..Len(userAPIData) :
            /\ SameKey(userAPIData[j], args.apiDataList[j])
            /\ KeyMates(j, "updated") # {} =>
                    HoldsAnalysisOf(j, Last(KeyMates(j, "updated")))
            /\ KeyMates(j, "updated") = {} => userAPIData[j] = args.apiDataList[j]

\* the first record has findings and its update succeeds; the second, with
\* the same key, is analysed without findings and now holds the findings of
\* the first
C30_Witness ==
    /\ op = "ProcessExistingDataForPII"
    /\ ret.rescanErr = "nil"
    /\ Len(args.apiDataList) = 2
    /\ SameKey(args.apiDataList[1], args.apiDataList[2])
    /\ ret.log[1].update = "ok"
    /\ ret.log[2].analysed
    /\ ret.log[2].TotalCount = 0
    /\ ~args.apiDataList[2].HasPII
    /\ userAPIData[2].HasPII
    /\ userAPIData[2].PIIFindings = userAPIData[1].PIIFindings
    /\ userAPIData[1].RequestBody # userAPIData[2].RequestBody

====
